---------------------------- MODULE Spec2Model ----------------------------
(***************************************************************************)
(* State-machine model of the congress datalog core:                       *)
(*   - NonrecursiveRuleTheory / ActionTheory / UnsafeNonrecursiveRuleTheory *)
(*     (congress/datalog/nonrecursive.py) over a RuleSet,                  *)
(*   - Graph and BagGraph (congress/datalog/utility.py): mutators,         *)
(*     depth-first traversal, cycles, dependencies and stratification.     *)
(* Every public method is one action; the method's loops are unrolled by   *)
(* recursive operators that follow the statements of the source.           *)
(***************************************************************************)
EXTENDS Integers, Sequences, FiniteSets, TLC

VARIABLES
    rules,    \* self.rules: the RuleSet, table name -> set of stored rules
    call,     \* the last theory method called: arguments, state before, result
    cls,      \* the class of the graph object: "Graph" or "BagGraph"
    nodes,    \* Graph.nodes (the keys of the dict)
    edges,    \* Graph.edges: node -> set of edge_data <<node, label>>
    cycles,   \* Graph.cycles: "None" or the list of recorded cycles
    node_refcounts,  \* BagGraph._node_refcounts: node -> count
    edge_refcounts,  \* BagGraph._edge_refcounts: <<val1, val2, label>> -> count
    nodes_info,  \* the values of Graph.nodes that are dfs_data: node -> begin, end
    counter,  \* Graph.counter: the next timestamp, NoCounter before any reset()
    backpath, \* Graph.backpath: node -> the node an edge to it was last seen from
    gcall,    \* the last graph method called: arguments, state before, result
    set_end,  \* OrderedSet.end: the links of the sentinel of the linked list
    set_map,  \* OrderedSet.map: key -> the links of the key's list node
    scall     \* the last OrderedSet method called: arguments, state before, result

vars == <<rules, call, cls, nodes, edges, cycles, node_refcounts,
          edge_refcounts, nodes_info, counter, backpath, gcall, set_end,
          set_map, scall>>
setVars == <<set_end, set_map, scall>>
theoryVars == <<rules, call>>
graphVars == <<cls, nodes, edges, cycles, node_refcounts, edge_refcounts,
               nodes_info, counter, backpath, gcall>>
\* the traversal fields that reset() assigns besides cycles
travVars == <<nodes_info, counter, backpath>>
\* the fields of a Graph / of the reference counts a BagGraph adds to them
plainVars == <<nodes, edges, cycles>>
bagVars == <<node_refcounts, edge_refcounts>>

---------------------------------------------------------------------------
(* Bounds of the model *)

MaxEvents == 3      \* longest event batch / rule list handed to one call
MaxChecked == 1     \* longest event batch handed to update_would_cause_errors
MaxFacts == 2       \* longest fact list handed to initialize_tables
MaxTablenames == 2  \* longest tablenames list handed to one call

---------------------------------------------------------------------------
(* Formulas: atoms, rules and objects that are no datalog formula *)

Tables == {"p", "q"}
Args == {1, 2}

Pos(t) == [table |-> t, neg |-> FALSE]
Neg(t) == [table |-> t, neg |-> TRUE]

\* bodies a caller may hand in; the third is the second one written with the
\* negated literal first
Bodies == { <<>>, <<Pos("q"), Neg("r")>>, <<Neg("r"), Pos("q")>> }

Atom(t, a) == [kind |-> "atom", table |-> t, arg |-> a, body |-> <<>>]
Rule(t, a, b) == [kind |-> "rule", table |-> t, arg |-> a, body |-> b]
\* an object that is neither an atom nor a rule (it has no head)
Other == [kind |-> "other", table |-> "none", arg |-> 0, body |-> <<>>]

Atoms == { Atom(t, a) : t \in Tables, a \in Args }
\* rules handed in as Rule objects all have the head p(1), to keep the store
\* small; table q holds facts only
InputRules == { Rule("p", 1, b) : b \in Bodies }
Formulas == Atoms \cup InputRules \cup {Other}

Event(f, ins) == [formula |-> f, insert |-> ins]
Events == { Event(f, ins) : f \in Formulas, ins \in BOOLEAN }

SeqsUpTo(S, n) == UNION { [1..k -> S] : k \in 0..n }

RECURSIVE SelectLits(_, _)
SelectLits(body, neg) ==
    IF body = <<>> THEN <<>>
    ELSE IF Head(body).neg = neg
         THEN <<Head(body)>> \o SelectLits(Tail(body), neg)
         ELSE SelectLits(Tail(body), neg)

\* compile.reorder_for_safety: a rule's negated literals are moved behind its
\* positive ones (which bind the variables); anything else is returned as is
reorder_for_safety(f) ==
    IF f.kind = "rule"
    THEN [f EXCEPT !.body = SelectLits(f.body, FALSE) \o SelectLits(f.body, TRUE)]
    ELSE f

is_atom(f) == f.kind = "atom"
is_datalog(f) == f.kind \in {"atom", "rule"}

---------------------------------------------------------------------------
(* RuleSet: table -> set of rules whose head is that table.  A table with  *)
(* no rule is not a key.                                                   *)

EmptyRuleSet == << >>

keys(rs) == DOMAIN rs

get_rules(rs, t) == IF t \in DOMAIN rs THEN rs[t] ELSE {}

contains(rs, t, r) == r \in get_rules(rs, t)

RuleSetPut(rs, t, s) ==
    IF s = {}
    THEN [k \in (DOMAIN rs) \ {t} |-> rs[k]]
    ELSE [k \in (DOMAIN rs) \cup {t} |-> IF k = t THEN s ELSE rs[k]]

add_rule(rs, t, r) ==
    [rules |-> RuleSetPut(rs, t, get_rules(rs, t) \cup {r}),
     changed |-> ~contains(rs, t, r)]

discard_rule(rs, t, r) ==
    [rules |-> RuleSetPut(rs, t, get_rules(rs, t) \ {r}),
     changed |-> contains(rs, t, r)]

clear_table(rs, t) == RuleSetPut(rs, t, {})

clear(rs) == EmptyRuleSet

---------------------------------------------------------------------------
(* NonrecursiveRuleTheory: internal interface *)

\* a step that raised: the store is as it was, nothing is reported changed
Raised(rs) == [rules |-> rs, changed |-> FALSE, raised |-> TRUE]
Returned(r) == [rules |-> r.rules, changed |-> r.changed, raised |-> FALSE]

\* variant: the change flag of add_rule is dropped and True returned
_insert_actual_always_true(rs, f) ==
    IF f.kind = "other" THEN Raised(rs)
    ELSE LET rule == IF is_atom(f) THEN Rule(f.table, f.arg, <<>>) ELSE f
         IN  [Returned(add_rule(rs, rule.table, rule)) EXCEPT !.changed = TRUE]

_insert_actual(rs, f) ==
    IF f.kind = "other" THEN Raised(rs)   \* rule.head: no such attribute
    ELSE LET rule == IF is_atom(f) THEN Rule(f.table, f.arg, <<>>) ELSE f
         IN  Returned(add_rule(rs, rule.table, rule))

\* variant: the rule is removed rather than discarded, a KeyError when absent
_delete_actual_remove(rs, f) ==
    IF f.kind = "other" THEN Raised(rs)
    ELSE LET rule == IF is_atom(f) THEN Rule(f.table, f.arg, <<>>) ELSE f
         IN  IF contains(rs, rule.table, rule)
             THEN Returned(discard_rule(rs, rule.table, rule))
             ELSE Raised(rs)

_delete_actual(rs, f) ==
    IF f.kind = "other" THEN Raised(rs)
    ELSE LET rule == IF is_atom(f) THEN Rule(f.table, f.arg, <<>>) ELSE f
         IN  Returned(discard_rule(rs, rule.table, rule))

RECURSIVE update_loop(_, _, _, _)
update_loop(rs, events, i, changes) ==
    IF i > Len(events)
    THEN [rules |-> rs, ret |-> changes, raised |-> FALSE]
    ELSE LET event == events[i]
             formula == reorder_for_safety(event.formula)
             r == IF event.insert THEN _insert_actual(rs, formula)
                                  ELSE _delete_actual(rs, formula)
         IN  IF r.raised
             THEN [rules |-> r.rules, ret |-> <<>>, raised |-> TRUE]
             ELSE update_loop(r.rules, events, i + 1,
                              IF r.changed THEN Append(changes, event)
                                           ELSE changes)

\* variant: every event of a batch that raised nothing is reported as a change
update_reports_every_event(rs, events) ==
    LET r == update_loop(rs, events, 1, <<>>)
    IN  IF r.raised THEN r ELSE [r EXCEPT !.ret = events]

\* variant: a batch that raises is rolled back
update_rolls_back(rs, events) ==
    LET r == update_loop(rs, events, 1, <<>>)
    IN  IF r.raised THEN [r EXCEPT !.rules = rs] ELSE r

update(rs, events) == update_loop(rs, events, 1, <<>>)

content(rs) == UNION { get_rules(rs, t) : t \in keys(rs) }

Range(s) == { s[i] : i \in DOMAIN s }

\* the loops "for t in ...: self.rules.clear_table(t)" over a list and a set
RECURSIVE clear_tables(_, _, _)
clear_tables(rs, tablenames, i) ==
    IF i > Len(tablenames) THEN rs
    ELSE clear_tables(clear_table(rs, tablenames[i]), tablenames, i + 1)

RECURSIVE clear_table_set(_, _)
clear_table_set(rs, S) ==
    IF S = {} THEN rs
    ELSE LET t == CHOOSE t \in S : TRUE
         IN  clear_table_set(clear_table(rs, t), S \ {t})

---------------------------------------------------------------------------
(* NonrecursiveRuleTheory: external interface (the methods as functions of *)
(* the store; each returns the store it leaves and what it returns)        *)

Formulae(events) == [i \in DOMAIN events |-> events[i].formula]
InsertEvents(fs) == [i \in DOMAIN fs |-> Event(fs[i], TRUE)]

insert(rs, rule) ==
    LET r == update(rs, <<Event(rule, TRUE)>>)
    IN  [r EXCEPT !.ret = Formulae(r.ret)]

delete(rs, rule) ==
    LET r == update(rs, <<Event(rule, FALSE)>>)
    IN  [r EXCEPT !.ret = Formulae(r.ret)]

\* variant: invert is not looked at
empty_ignores_invert(rs, all, tablenames, invert) ==
    IF all THEN clear(rs) ELSE clear_tables(rs, tablenames, 1)

empty(rs, all, tablenames, invert) ==
    IF all THEN clear(rs)
    ELSE IF invert THEN clear_table_set(rs, keys(rs) \ Range(tablenames))
    ELSE clear_tables(rs, tablenames, 1)

\* variant: the theory is not emptied first
define_without_empty(rs, rs_rules) == update(rs, InsertEvents(rs_rules))

define(rs, rs_rules) == update(empty(rs, TRUE, <<>>, FALSE), InsertEvents(rs_rules))

RECURSIVE initialize_facts(_, _, _, _)
initialize_facts(rs, facts, i, cleared_tables) ==
    IF i > Len(facts) THEN rs
    ELSE LET f == facts[i]
             rs1 == IF f.table \notin cleared_tables
                    THEN clear_table(rs, f.table) ELSE rs
         IN  initialize_facts(add_rule(rs1, f.table, f).rules, facts, i + 1,
                              cleared_tables \cup {f.table})

\* variant: the table of a fact is never cleared unless it is named
initialize_tables_no_lazy_clear(rs, tablenames, facts) ==
    initialize_facts(clear_tables(rs, tablenames, 1), facts, 1, Tables)

initialize_tables(rs, tablenames, facts) ==
    initialize_facts(clear_tables(rs, tablenames, 1), facts, 1, Range(tablenames))

\* compile.fact_errors / rule_errors / rule_head_has_no_theory are the
\* external validator's: verdict[i] says whether it objects to event i
event_errors(k, event, objects) ==
    IF ~is_datalog(event.formula) THEN <<"Non-formula found">>
    ELSE IF ~objects THEN <<>>
    ELSE IF is_atom(event.formula) THEN <<"fact_errors">>
    ELSE IF k = "action" THEN <<"rule_head_has_no_theory">>
    ELSE <<"rule_errors">>

RECURSIVE errors_loop(_, _, _, _, _)
errors_loop(k, events, verdict, i, errors) ==
    IF i > Len(events) THEN errors
    ELSE errors_loop(k, events, verdict, i + 1,
                     errors \o event_errors(k, events[i], verdict[i]))

\* variant: the events are tried on the store to find the errors
update_would_cause_errors_applies(rs, k, events, verdict) ==
    [rules |-> update(rs, events).rules,
     ret |-> IF k = "unsafe" THEN <<>> ELSE errors_loop(k, events, verdict, 1, <<>>)]

update_would_cause_errors(rs, k, events, verdict) ==
    [rules |-> rs,
     ret |-> IF k = "unsafe" THEN <<>> ELSE errors_loop(k, events, verdict, 1, <<>>)]

\* variant: rules with empty bodies are not eliminated
policy_unfiltered(rs) == content(rs)

policy(rs) == { p \in content(rs) : Len(p.body) > 0 }

\* variant: every table name the theory has seen is listed
defined_tablenames_all(rs) == Tables

defined_tablenames(rs) == keys(rs)

---------------------------------------------------------------------------
(* The theory's actions: one per public method.  call records the last    *)
(* call for its caller to look at; the next call is made once the caller  *)
(* has dropped the record (Return), except that an insert may follow an   *)
(* insert at once, so that two successive inserts can be compared.        *)

Kinds == {"nonrecursive", "action", "unsafe"}

\* a fact handed to initialize_tables is stored as it is: a rule with no body
Facts == { Rule(t, a, <<>>) : t \in Tables, a \in Args }

NoCall == [op |-> "none", kind |-> "nonrecursive", events |-> <<>>, all |-> FALSE, tablenames |-> <<>>,
           invert |-> FALSE, facts |-> <<>>, verdict |-> <<>>,
           pre |-> EmptyRuleSet, ret |-> <<>>, raised |-> FALSE]

Update ==
    /\ call.op = "none"
    /\ \E events \in SeqsUpTo(Events, MaxEvents) :
        LET r == update(rules, events)
        IN  /\ rules' = r.rules
            /\ call' = [NoCall EXCEPT !.op = "update", !.events = events,
                            !.pre = rules, !.ret = r.ret, !.raised = r.raised]
            /\ UNCHANGED <<graphVars, setVars>>

Insert ==
    /\ call.op \in {"none", "insert"}
    /\ \E rule \in Formulas :
        LET r == insert(rules, rule)
        IN  /\ rules' = r.rules
            /\ call' = [NoCall EXCEPT !.op = "insert",
                            !.events = <<Event(rule, TRUE)>>,
                            !.pre = rules, !.ret = r.ret, !.raised = r.raised]
            /\ UNCHANGED <<graphVars, setVars>>

Delete ==
    /\ call.op = "none"
    /\ \E rule \in Formulas :
        LET r == delete(rules, rule)
        IN  /\ rules' = r.rules
            /\ call' = [NoCall EXCEPT !.op = "delete",
                            !.events = <<Event(rule, FALSE)>>,
                            !.pre = rules, !.ret = r.ret, !.raised = r.raised]
            /\ UNCHANGED <<graphVars, setVars>>

Define ==
    /\ call.op = "none"
    /\ \E rs \in SeqsUpTo(Formulas, MaxEvents) :
        LET r == define(rules, rs)
        IN  /\ rules' = r.rules
            /\ call' = [NoCall EXCEPT !.op = "define", !.events = InsertEvents(rs),
                            !.pre = rules, !.ret = r.ret, !.raised = r.raised]
            /\ UNCHANGED <<graphVars, setVars>>

Empty ==
    /\ call.op = "none"
    /\ \E all \in BOOLEAN, tablenames \in SeqsUpTo(Tables, MaxTablenames),
       invert \in BOOLEAN :
        /\ all => (tablenames = <<>> /\ ~invert)
        /\ rules' = empty(rules, all, tablenames, invert)
        /\ call' = [NoCall EXCEPT !.op = "empty", !.all = all,
                        !.tablenames = tablenames, !.invert = invert,
                        !.pre = rules]
        /\ UNCHANGED <<graphVars, setVars>>

InitializeTables ==
    /\ call.op = "none"
    /\ \E tablenames \in SeqsUpTo(Tables, MaxTablenames),
       facts \in SeqsUpTo(Facts, MaxFacts) :
        /\ rules' = initialize_tables(rules, tablenames, facts)
        /\ call' = [NoCall EXCEPT !.op = "initialize_tables",
                        !.tablenames = tablenames, !.facts = facts,
                        !.pre = rules]
        /\ UNCHANGED <<graphVars, setVars>>

\* the three classes share the store and every method but this one: kind is
\* the class whose update_would_cause_errors is called
UpdateWouldCauseErrors ==
    /\ call.op = "none"
    /\ \E kind \in Kinds, events \in SeqsUpTo(Events, MaxChecked) :
        \E verdict \in [DOMAIN events -> BOOLEAN] :
            LET r == update_would_cause_errors(rules, kind, events, verdict)
            IN  /\ rules' = r.rules
                /\ call' = [NoCall EXCEPT !.op = "update_would_cause_errors",
                                !.kind = kind, !.events = events, !.verdict = verdict,
                                !.pre = rules, !.ret = r.ret]
                /\ UNCHANGED <<graphVars, setVars>>

Return ==
    /\ call.op # "none"
    /\ call' = NoCall
    /\ UNCHANGED <<rules, graphVars, setVars>>

NextTheory ==
    \/ Return
    \/ Update
    \/ Insert
    \/ Delete
    \/ Define
    \/ Empty
    \/ InitializeTables
    \/ UpdateWouldCauseErrors

---------------------------------------------------------------------------
(* Graph (utility.py): nodes, labelled edges and stratification *)

MaxEdges == 3       \* add_edge is called while the graph holds fewer edges

Nodes == {"a", "b", "c"}

\* self.cycles is None: it is not a list of cycles, which are lists of nodes
NoCycles(c) == c \notin Seq(Seq(Nodes))
\* "None" is the label of an edge added without one
Labels == {"None", "neg"}

edge_data(node, label) == <<node, label>>

\* every edge as <<source, target, label>>
AllEdges(es) == UNION { { <<u, e[1], e[2]>> : e \in es[u] } : u \in DOMAIN es }

Graph_add_node(ns, val) == IF val \notin ns THEN ns \cup {val} ELSE ns

\* del self.nodes[val]; del self.edges[val]; a KeyError of either ends the
\* method, and then val must not be a key of self.edges
Graph_delete_node(ns, es, val) ==
    IF val \in ns
    THEN [nodes |-> ns \ {val},
          edges |-> [k \in (DOMAIN es) \ {val} |-> es[k]],
          raised |-> FALSE]
    ELSE [nodes |-> ns, edges |-> es, raised |-> val \in DOMAIN es]

Graph_add_edge(ns, es, val1, val2, label) ==
    LET val == edge_data(val2, label)
    IN  [nodes |-> Graph_add_node(Graph_add_node(ns, val1), val2),
         edges |-> IF val1 \in DOMAIN es
                   THEN [es EXCEPT ![val1] = @ \cup {val}]
                   ELSE [k \in (DOMAIN es) \cup {val1} |->
                            IF k = val1 THEN {val} ELSE es[k]],
         cycles |-> "None"]

Graph_delete_edge(ns, es, cyc, val1, val2, label) ==
    LET edge == edge_data(val2, label)
    IN  IF val1 \in DOMAIN es /\ edge \in es[val1]
        THEN [nodes |-> ns, edges |-> [es EXCEPT ![val1] = @ \ {edge}],
              cycles |-> "None"]
        ELSE [nodes |-> ns, edges |-> es, cycles |-> cyc]

Max(x, y) == IF x >= y THEN x ELSE y

\* "for node in self.edges: for edge in self.edges[node]" visits the edges in
\* some order that keeps the edges of one source node together
IterationOrders(es) ==
    LET E == AllEdges(es)
        n == Cardinality(E)
    IN  { o \in [1..n -> E] :
            /\ \A i, j \in 1..n : i # j => o[i] # o[j]
            /\ \A i, j, k \in 1..n :
                  (i < j /\ j < k /\ o[i][1] = o[k][1]) => o[j][1] = o[i][1] }

\* variant: a stratum is given up only above twice the number of nodes
RECURSIVE stratification_pass_late_bound(_, _, _, _, _, _)
stratification_pass_late_bound(ns, order, labels, stratum, i, changes) ==
    IF i > Len(order)
    THEN [ret |-> "pass", stratum |-> stratum, changes |-> changes]
    ELSE LET node == order[i][1]
             target == order[i][2]
             label == order[i][3]
         IN  IF target \notin DOMAIN stratum
             THEN [ret |-> "KeyError", stratum |-> stratum, changes |-> changes]
             ELSE LET oldp == stratum[node]
                      new == IF label \in labels
                             THEN Max(stratum[node], 1 + stratum[target])
                             ELSE Max(stratum[node], stratum[target])
                      stratum1 == [stratum EXCEPT ![node] = new]
                  IN  IF new > 2 * Cardinality(ns)
                      THEN [ret |-> "None", stratum |-> stratum1, changes |-> TRUE]
                      ELSE stratification_pass_late_bound(ns, order, labels,
                               stratum1, i + 1, changes \/ oldp # new)

\* one run of the for loops, from edge i of the order on
RECURSIVE stratification_pass(_, _, _, _, _, _)
stratification_pass(ns, order, labels, stratum, i, changes) ==
    IF i > Len(order)
    THEN [ret |-> "pass", stratum |-> stratum, changes |-> changes]
    ELSE LET node == order[i][1]
             target == order[i][2]
             label == order[i][3]
         IN  IF target \notin DOMAIN stratum
             THEN [ret |-> "KeyError", stratum |-> stratum, changes |-> changes]
             ELSE LET oldp == stratum[node]
                      new == IF label \in labels
                             THEN Max(stratum[node], 1 + stratum[target])
                             ELSE Max(stratum[node], stratum[target])
                      stratum1 == [stratum EXCEPT ![node] = new]
                  IN  IF new > Cardinality(ns)
                      THEN [ret |-> "None", stratum |-> stratum1, changes |-> TRUE]
                      ELSE stratification_pass(ns, order, labels, stratum1, i + 1,
                                               changes \/ oldp # new)

\* the while loop: passes counts the runs of the for loops
RECURSIVE stratification_loop(_, _, _, _, _)
stratification_loop(ns, order, labels, stratum, passes) ==
    LET r == stratification_pass(ns, order, labels, stratum, 1, FALSE)
    IN  IF r.ret # "pass"
        THEN [ret |-> r.ret, stratum |-> r.stratum, passes |-> passes + 1]
        ELSE IF r.changes
        THEN stratification_loop(ns, order, labels, r.stratum, passes + 1)
        ELSE [ret |-> "mapping", stratum |-> r.stratum, passes |-> passes + 1]

\* variant: the for loops are run once, not to a fixpoint
stratification_single_pass(ns, order, labels) ==
    LET r == stratification_pass(ns, order, labels, [n \in ns |-> 1], 1, FALSE)
    IN  [ret |-> IF r.ret = "pass" THEN "mapping" ELSE r.ret,
         stratum |-> r.stratum, passes |-> 1]

\* variant: the strata start at zero
stratification_from_zero(ns, order, labels) ==
    stratification_loop(ns, order, labels, [n \in ns |-> 0], 0)

stratification(ns, order, labels) ==
    stratification_loop(ns, order, labels, [n \in ns |-> 1], 0)

\* dict access helpers: d.get(k, 0), d[k] = v, del d[k]
count(f, k) == IF k \in DOMAIN f THEN f[k] ELSE 0
Put(f, k, v) == [x \in (DOMAIN f) \cup {k} |-> IF x = k THEN v ELSE f[x]]
Drop(f, k) == [x \in (DOMAIN f) \ {k} |-> f[x]]

---------------------------------------------------------------------------
(* Graph: depth-first traversal, cycles, dependencies *)

\* dfs_data(begin=None, end=None); Python 2 orders None below every integer,
\* as this value is below every counter value
NoneTime == -1

\* self.counter and self.backpath do not exist before the first reset()
NoCounter == -1

\* next_counter: self.counter += 1; return self.counter - 1
next_counter(c) ==
    IF c = NoCounter
    THEN [counter |-> c, value |-> NoCounter, ret |-> "AttributeError"]
    ELSE [counter |-> c + 1, value |-> c, ret |-> "ok"]
dfs_data == [begin |-> NoneTime, end |-> NoneTime]

\* "for node in self.nodes" visits the nodes in some order
NodeOrders(ns) ==
    LET n == Cardinality(ns)
    IN  { o \in [1..n -> ns] : \A i, j \in 1..n : i # j => o[i] # o[j] }

\* "for edge in self.edges[node]": the edges of one source in iteration order
edges_of(order, node) == SelectSeq(order, LAMBDA e : e[1] = node)

Reverse(s) == [i \in 1..Len(s) |-> s[Len(s) + 1 - i]]

\* the traversal fields after reset(); ret tells how the traversal ended
\* variant: the shared counter starts at one
reset_counter_at_one(ns) ==
    [keys |-> ns, info |-> [n \in ns |-> dfs_data], counter |-> 1,
     cycles |-> << >>, backpath |-> << >>, ret |-> "ok"]

\* keys are the nodes, info the nodes whose value is a dfs_data
reset(ns) ==
    [keys |-> ns, info |-> [n \in ns |-> dfs_data], counter |-> 0,
     cycles |-> << >>, backpath |-> << >>, ret |-> "ok"]

\* the while loop of construct_cycle; it never exits once it is back at a
\* node it has already left without meeting NODE ("diverges")
RECURSIVE construct_cycle_walk(_, _, _, _, _)
construct_cycle_walk(node, history, prev, sofar, seen) ==
    IF prev = node
    THEN [ret |-> "ok", cycle |-> Reverse(Append(sofar, node))]
    ELSE IF prev \in seen
    THEN [ret |-> "diverges", cycle |-> sofar]
    ELSE IF prev \notin DOMAIN history
    THEN [ret |-> "KeyError", cycle |-> sofar]
    ELSE construct_cycle_walk(node, history, history[prev],
                              Append(sofar, history[prev]), seen \cup {prev})

construct_cycle(node, history) ==
    IF node \notin DOMAIN history
    THEN [ret |-> "KeyError", cycle |-> << >>]
    ELSE construct_cycle_walk(node, history, history[node],
                              <<history[node]>>, {})

\* dfs(node) and its "for edge in self.edges[node]" loop from edge i on;
\* an exception or a walk that never ends stops the traversal where it is
RECURSIVE dfs(_, _, _, _)
RECURSIVE dfs_edges(_, _, _, _, _, _)
dfs(es, order, st, node) ==
    LET \* next_counter() is evaluated before self.nodes[node] is looked up
        stc == [st EXCEPT !.counter = @ + 1]
        st1 == [stc EXCEPT !.info[node].begin = st.counter]
        st2 == IF node \in DOMAIN es
               THEN dfs_edges(es, order, st1, node, edges_of(order, node), 1)
               ELSE st1
    IN  IF st.counter = NoCounter
        THEN [st EXCEPT !.ret = "AttributeError"]
        ELSE IF node \notin st.keys
        THEN [stc EXCEPT !.ret = "KeyError"]
        ELSE IF node \notin DOMAIN st.info
        THEN [stc EXCEPT !.ret = "AttributeError"]
        ELSE IF st2.ret # "ok"
        THEN st2
        ELSE [st2 EXCEPT !.info[node].end = st2.counter, !.counter = @ + 1]

dfs_edges(es, order, st, node, out, i) ==
    IF i > Len(out)
    THEN st
    ELSE LET target == out[i][2]
             st1 == [st EXCEPT !.backpath = Put(@, target, node)]
         IN  IF target \notin st1.keys
             THEN [st1 EXCEPT !.ret = "KeyError"]
             ELSE IF target \notin DOMAIN st1.info
             THEN [st1 EXCEPT !.ret = "AttributeError"]
             ELSE IF st1.info[target].begin = NoneTime
             THEN LET st2 == dfs(es, order, st1, target)
                  IN  IF st2.ret # "ok"
                      THEN st2
                      ELSE dfs_edges(es, order, st2, node, out, i + 1)
             ELSE IF st1.info[target].end = NoneTime
             THEN LET c == construct_cycle(target, st1.backpath)
                  IN  IF c.ret # "ok"
                      THEN [st1 EXCEPT !.ret = c.ret]
                      ELSE IF NoCycles(st1.cycles)
                      THEN [st1 EXCEPT !.ret = "AttributeError"]
                      ELSE dfs_edges(es, order,
                                     [st1 EXCEPT !.cycles = Append(@, c.cycle)],
                                     node, out, i + 1)
             ELSE dfs_edges(es, order, st1, node, out, i + 1)

\* the for loop of depth_first_search from node i of the order on
RECURSIVE depth_first_search_loop(_, _, _, _, _)
depth_first_search_loop(es, norder, order, st, i) ==
    IF i > Len(norder)
    THEN st
    ELSE IF st.info[norder[i]].begin = NoneTime
    THEN LET st1 == dfs(es, order, st, norder[i])
         IN  IF st1.ret # "ok"
             THEN st1
             ELSE depth_first_search_loop(es, norder, order, st1, i + 1)
    ELSE depth_first_search_loop(es, norder, order, st, i + 1)

\* variant: the traversal is started from the first node of the order only
depth_first_search_first_root(ns, es, norder, order) ==
    IF Len(norder) = 0
    THEN reset(ns)
    ELSE dfs(es, order, reset(ns), norder[1])

depth_first_search(ns, es, norder, order) ==
    depth_first_search_loop(es, norder, order, reset(ns), 1)

depth_first_search_node(ns, es, order, node) ==
    dfs(es, order, reset(ns), node)

\* has_cycle: value is len(self.cycles) > 0 when the traversal returned
has_cycle(ns, es, norder, order) ==
    LET st == depth_first_search(ns, es, norder, order)
    IN  [st |-> st,
         ret |-> IF st.ret # "ok" THEN st.ret
                 ELSE IF Len(st.cycles) > 0 THEN "True" ELSE "False"]

\* dependencies: None for an unknown node, before anything is reset
dependencies(ns, es, order, node) ==
    IF node \notin ns
    THEN [ret |-> "None", deps |-> {}, st |-> reset({})]
    ELSE LET st == depth_first_search_node(ns, es, order, node)
             begin == st.info[node].begin
             end == st.info[node].end
         IN  [ret |-> IF st.ret = "ok" THEN "set" ELSE st.ret,
              deps |-> IF st.ret = "ok"
                       THEN { n \in ns : /\ begin <= st.info[n].begin
                                         /\ st.info[n].end <= end }
                       ELSE {},
              st |-> st]

---------------------------------------------------------------------------
(* BagGraph: Graph with reference counts *)

MaxEdgeRefs == 2    \* BagGraph.add_edge is called while the edge counts sum to less
MaxNodeRefs == 2    \* BagGraph.add_node(val) is called while val's count is less

\* the fields of a BagGraph object; raised: an AssertionError left the method
BagState(ns, es, cyc, nrc, erc) ==
    [nodes |-> ns, edges |-> es, cycles |-> cyc,
     node_refcounts |-> nrc, edge_refcounts |-> erc, raised |-> FALSE]

BagGraph_add_node(g, val) ==
    [g EXCEPT !.nodes = Graph_add_node(@, val),
              !.node_refcounts = Put(@, val, count(@, val) + 1)]

\* variant: a counter that reaches zero keeps its entry
BagGraph_delete_node_keeps_zero(g, val) ==
    IF val \notin DOMAIN g.node_refcounts
    THEN g
    ELSE IF g.node_refcounts[val] - 1 = 0
    THEN LET r == Graph_delete_node(g.nodes, g.edges, val)
         IN  [g EXCEPT !.nodes = r.nodes, !.edges = r.edges,
                       !.raised = r.raised,
                       !.node_refcounts = [@ EXCEPT ![val] = 0]]
    ELSE [g EXCEPT !.node_refcounts[val] = @ - 1]

\* an AssertionError of Graph.delete_node skips the del of the counter
BagGraph_delete_node(g, val) ==
    IF val \notin DOMAIN g.node_refcounts
    THEN g
    ELSE IF g.node_refcounts[val] - 1 = 0
    THEN LET r == Graph_delete_node(g.nodes, g.edges, val)
         IN  [g EXCEPT !.nodes = r.nodes, !.edges = r.edges,
                       !.raised = r.raised,
                       !.node_refcounts =
                           IF r.raised THEN [@ EXCEPT ![val] = 0]
                           ELSE Drop(@, val)]
    ELSE [g EXCEPT !.node_refcounts[val] = @ - 1]

\* variant: the edge is counted once however often it is added
BagGraph_add_edge_no_recount(g, val1, val2, label) ==
    LET edge == <<val1, val2, label>>
        g2 == BagGraph_add_node(BagGraph_add_node(g, val1), val2)
        r == Graph_add_edge(g.nodes, g.edges, val1, val2, label)
    IN  [g2 EXCEPT !.edges = r.edges, !.cycles = r.cycles,
                   !.edge_refcounts = Put(@, edge, 1)]

\* Graph.add_edge run on a BagGraph: its self.add_node calls are
\* BagGraph.add_node, so both endpoints are counted
BagGraph_add_edge(g, val1, val2, label) ==
    LET edge == <<val1, val2, label>>
        g2 == BagGraph_add_node(BagGraph_add_node(g, val1), val2)
        r == Graph_add_edge(g.nodes, g.edges, val1, val2, label)
    IN  [g2 EXCEPT !.edges = r.edges, !.cycles = r.cycles,
                   !.edge_refcounts = Put(@, edge, count(@, edge) + 1)]

BagGraph_delete_edge(g, val1, val2, label) ==
    LET edge == <<val1, val2, label>>
    IN  IF edge \notin DOMAIN g.edge_refcounts
        THEN g
        ELSE LET g1 == BagGraph_delete_node(g, val1)
                 g2 == IF g1.raised THEN g1 ELSE BagGraph_delete_node(g1, val2)
                 r == Graph_delete_edge(g2.nodes, g2.edges, g2.cycles,
                                        val1, val2, label)
             IN  IF g2.raised
                 THEN g2
                 ELSE IF g2.edge_refcounts[edge] - 1 = 0
                 THEN [g2 EXCEPT !.edges = r.edges, !.cycles = r.cycles,
                                 !.edge_refcounts = Drop(@, edge)]
                 ELSE [g2 EXCEPT !.edge_refcounts[edge] = @ - 1]

BagGraph_node_in(nrc, val) == val \in DOMAIN nrc
BagGraph_edge_in(erc, val1, val2, label) == <<val1, val2, label>> \in DOMAIN erc
node_count(nrc, node) == count(nrc, node)
edge_count(erc, val1, val2, label) == count(erc, <<val1, val2, label>>)

RECURSIVE SumOver(_, _)
SumOver(f, S) ==
    IF S = {} THEN 0
    ELSE LET k == CHOOSE x \in S : TRUE
         IN  f[k] + SumOver(f, S \ {k})

---------------------------------------------------------------------------
(* Graph: union (__or__, __ior__) *)

MaxOtherEdges == 1  \* most edges of the graph handed to a union as other

\* dfs is called directly while self.counter is below this
MaxCounter == 3

\* Graph.__len__: the nodes plus the edges
Graph_len(ns, es) == Cardinality(ns) + Cardinality(AllEdges(es))

\* the edges dict holding the edges E
EdgeDict(E) ==
    [u \in { t[1] : t \in E } |-> { edge_data(t[2], t[3]) : t \in { x \in E : x[1] = u } }]

RECURSIVE EdgeSetsUpTo(_)
EdgeSetsUpTo(k) ==
    IF k = 0
    THEN { {} }
    ELSE LET P == EdgeSetsUpTo(k - 1)
         IN  P \cup { S \cup {<<u, v, l>>} :
                        S \in P, u \in Nodes, v \in Nodes, l \in Labels }

\* the graphs handed to a union: Graph objects as the mutators leave them,
\* every source of an edge a node, a target possibly deleted since
OtherGraphs ==
    { g \in { [nodes |-> N, edges |-> EdgeDict(E)] :
                N \in SUBSET Nodes, E \in EdgeSetsUpTo(MaxOtherEdges) } :
        DOMAIN g.edges \subseteq g.nodes }

\* "for name in ...: g.add_node(name)"; the result is the same in every order
RECURSIVE add_nodes(_, _)
add_nodes(ns, S) ==
    IF S = {}
    THEN ns
    ELSE LET val == CHOOSE x \in S : TRUE
         IN  add_nodes(Graph_add_node(ns, val), S \ {val})

\* "for name in ...edges: for edge in ...edges[name]: g.add_edge(...)"
RECURSIVE add_edges(_, _)
add_edges(g, E) ==
    IF E = {}
    THEN g
    ELSE LET t == CHOOSE x \in E : TRUE
             r == Graph_add_edge(g.nodes, g.edges, t[1], t[2], t[3])
         IN  add_edges([nodes |-> r.nodes, edges |-> r.edges], E \ {t})

\* __ior__; other is only read
Graph_ior(ns, es, cyc, other) ==
    IF Graph_len(other.nodes, other.edges) = 0
    THEN [nodes |-> ns, edges |-> es, cycles |-> cyc, other |-> other]
    ELSE LET g == add_edges([nodes |-> add_nodes(ns, other.nodes),
                             edges |-> es],
                            AllEdges(other.edges))
         IN  [nodes |-> g.nodes, edges |-> g.edges, cycles |-> "None",
              other |-> other]

\* the two for loops of __ior__ run on a BagGraph: self.add_node and
\* self.add_edge are the methods of BagGraph, which count every call
RECURSIVE bag_add_nodes(_, _)
bag_add_nodes(g, S) ==
    IF S = {}
    THEN g
    ELSE LET val == CHOOSE x \in S : TRUE
         IN  bag_add_nodes(BagGraph_add_node(g, val), S \ {val})

RECURSIVE bag_add_edges(_, _)
bag_add_edges(g, E) ==
    IF E = {}
    THEN g
    ELSE LET t == CHOOSE x \in E : TRUE
         IN  bag_add_edges(BagGraph_add_edge(g, t[1], t[2], t[3]), E \ {t})

\* __ior__ as a BagGraph inherits it
BagGraph_ior(g, other) ==
    IF Graph_len(other.nodes, other.edges) = 0
    THEN g
    ELSE bag_add_edges(bag_add_nodes([g EXCEPT !.cycles = "None"],
                                     other.nodes),
                       AllEdges(other.edges))

\* __or__: a new graph of the class of self; both operands are only read
Graph_or(ns, es, other) ==
    LET g == add_edges(add_edges([nodes |-> add_nodes(add_nodes({}, ns),
                                                      other.nodes),
                                  edges |-> << >>],
                                 AllEdges(es)),
                       AllEdges(other.edges))
    IN  [result |-> [nodes |-> g.nodes, edges |-> g.edges, cycles |-> "None"],
         other |-> other]

---------------------------------------------------------------------------
(* Actions of a graph object *)

Pre == [nodes |-> nodes, edges |-> edges, cycles |-> cycles,
        node_refcounts |-> node_refcounts, edge_refcounts |-> edge_refcounts,
        info |-> nodes_info, counter |-> counter, backpath |-> backpath]

\* the traversal fields of the object as dfs finds them
Traversal ==
    [keys |-> nodes, info |-> nodes_info, counter |-> counter,
     cycles |-> cycles, backpath |-> backpath, ret |-> "ok"]

\* add_node gives a new key the value None and keeps the value of an old
\* key, delete_node removes the key with its value: the dfs_data left over
\* the keys ns
KeepInfo(ns) == [n \in (DOMAIN nodes_info) \cap ns |-> nodes_info[n]]

NoGraphCall ==
    [op |-> "none", val1 |-> "none", val2 |-> "none", label |-> "none",
     labels |-> {}, order |-> << >>, norder |-> << >>, ret |-> "none",
     raised |-> FALSE, stratum |-> << >>, passes |-> 0, value |-> NoCounter,
     info |-> << >>, backpath |-> << >>, found |-> << >>, deps |-> {},
     other |-> [nodes |-> {}, edges |-> << >>],
     otherAfter |-> [nodes |-> {}, edges |-> << >>],
     result |-> [nodes |-> {}, edges |-> << >>, cycles |-> "None"],
     pre |-> [nodes |-> {}, edges |-> << >>, cycles |-> "None",
              node_refcounts |-> << >>, edge_refcounts |-> << >>,
              info |-> << >>, counter |-> NoCounter, backpath |-> << >>]]

EdgeCount(es) == Cardinality(AllEdges(es))

AddNode ==
    /\ gcall.op = "none"
    /\ cls = "Graph"
    /\ \E val \in Nodes :
        /\ nodes' = Graph_add_node(nodes, val)
        /\ gcall' = [NoGraphCall EXCEPT !.op = "add_node", !.val1 = val,
                                        !.pre = Pre]
        /\ nodes_info' = KeepInfo(nodes')
        /\ UNCHANGED <<edges, cycles, bagVars, cls, counter, backpath, theoryVars,
                     setVars>>

DeleteNode ==
    /\ gcall.op = "none"
    /\ cls = "Graph"
    /\ \E val \in Nodes :
        LET r == Graph_delete_node(nodes, edges, val)
        IN  /\ nodes' = r.nodes
            /\ edges' = r.edges
            /\ gcall' = [NoGraphCall EXCEPT !.op = "delete_node", !.val1 = val,
                                            !.raised = r.raised, !.pre = Pre]
            /\ nodes_info' = KeepInfo(nodes')
            /\ UNCHANGED <<cycles, bagVars, cls, counter, backpath, theoryVars,
                         setVars>>

AddEdge ==
    /\ gcall.op = "none"
    /\ cls = "Graph"
    /\ EdgeCount(edges) < MaxEdges
    /\ \E val1 \in Nodes, val2 \in Nodes, label \in Labels :
        LET r == Graph_add_edge(nodes, edges, val1, val2, label)
        IN  /\ nodes' = r.nodes
            /\ edges' = r.edges
            /\ cycles' = r.cycles
            /\ gcall' = [NoGraphCall EXCEPT !.op = "add_edge", !.val1 = val1,
                                            !.val2 = val2, !.label = label,
                                            !.pre = Pre]
            /\ nodes_info' = KeepInfo(nodes')
            /\ UNCHANGED <<bagVars, cls, counter, backpath, theoryVars,
                         setVars>>

DeleteEdge ==
    /\ gcall.op = "none"
    /\ cls = "Graph"
    /\ \E val1 \in Nodes, val2 \in Nodes, label \in Labels :
        LET r == Graph_delete_edge(nodes, edges, cycles, val1, val2, label)
        IN  /\ nodes' = r.nodes
            /\ edges' = r.edges
            /\ cycles' = r.cycles
            /\ gcall' = [NoGraphCall EXCEPT !.op = "delete_edge", !.val1 = val1,
                                            !.val2 = val2, !.label = label,
                                            !.pre = Pre]
            /\ nodes_info' = KeepInfo(nodes')
            /\ UNCHANGED <<bagVars, cls, counter, backpath, theoryVars,
                         setVars>>

Stratification ==
    /\ gcall.op = "none"
    /\ \E labels \in SUBSET Labels, order \in IterationOrders(edges) :
        LET r == stratification(nodes, order, labels)
        IN  /\ gcall' = [NoGraphCall EXCEPT !.op = "stratification",
                             !.labels = labels, !.order = order, !.ret = r.ret,
                             !.stratum = r.stratum, !.passes = r.passes,
                             !.pre = Pre]
            /\ UNCHANGED <<nodes, edges, cycles, bagVars, cls, travVars,
                         theoryVars, setVars>>

\* has_cycle() is depth_first_search() and then len(self.cycles) > 0: the
\* call recorded carries the timestamps, the backpath and the cycles that the
\* traversal left in the object
HasCycle ==
    /\ gcall.op = "none"
    /\ \E norder \in NodeOrders(nodes), order \in IterationOrders(edges) :
        LET r == has_cycle(nodes, edges, norder, order)
        IN  /\ cycles' = r.st.cycles
            /\ nodes_info' = r.st.info
            /\ counter' = r.st.counter
            /\ backpath' = r.st.backpath
            /\ gcall' = [NoGraphCall EXCEPT !.op = "has_cycle",
                             !.norder = norder, !.order = order,
                             !.ret = r.ret,
                             !.info = r.st.info, !.backpath = r.st.backpath,
                             !.found = r.st.cycles, !.pre = Pre]
            /\ UNCHANGED <<nodes, edges, bagVars, cls, theoryVars, setVars>>

Dependencies ==
    /\ gcall.op = "none"
    /\ \E node \in Nodes, order \in IterationOrders(edges) :
        LET r == dependencies(nodes, edges, order, node)
        IN  /\ cycles' = IF r.ret = "None" THEN cycles ELSE r.st.cycles
            /\ nodes_info' = IF r.ret = "None" THEN nodes_info ELSE r.st.info
            /\ counter' = IF r.ret = "None" THEN counter ELSE r.st.counter
            /\ backpath' = IF r.ret = "None" THEN backpath
                           ELSE r.st.backpath
            /\ gcall' = [NoGraphCall EXCEPT !.op = "dependencies",
                             !.val1 = node, !.order = order, !.ret = r.ret,
                             !.deps = r.deps,
                             !.info = r.st.info, !.backpath = r.st.backpath,
                             !.found = r.st.cycles, !.pre = Pre]
            /\ UNCHANGED <<nodes, edges, bagVars, cls, theoryVars, setVars>>

\* reset(): the cached cycles become the empty list
Reset ==
    /\ gcall.op = "none"
    /\ LET st == reset(nodes)
       IN  /\ cycles' = st.cycles
           /\ nodes_info' = st.info
           /\ counter' = st.counter
           /\ backpath' = st.backpath
           /\ gcall' = [NoGraphCall EXCEPT !.op = "reset", !.ret = "None",
                            !.info = st.info, !.backpath = st.backpath,
                            !.found = st.cycles, !.pre = Pre]
    /\ UNCHANGED <<nodes, edges, bagVars, cls, theoryVars, setVars>>

\* depth_first_search_node(node): reset() and then dfs(node), which raises
\* KeyError at once for a node that is no key of self.nodes
DepthFirstSearchNode ==
    /\ gcall.op = "none"
    /\ \E node \in Nodes, order \in IterationOrders(edges) :
        LET st == depth_first_search_node(nodes, edges, order, node)
        IN  /\ cycles' = st.cycles
            /\ nodes_info' = st.info
            /\ counter' = st.counter
            /\ backpath' = st.backpath
            /\ gcall' = [NoGraphCall EXCEPT !.op = "depth_first_search_node",
                             !.val1 = node, !.order = order,
                             !.ret = IF st.ret = "ok" THEN "None" ELSE st.ret,
                             !.info = st.info, !.backpath = st.backpath,
                             !.found = st.cycles, !.pre = Pre]
            /\ UNCHANGED <<nodes, edges, bagVars, cls, theoryVars, setVars>>

\* next_counter() called directly, while the counter is below the bound
NextCounter ==
    /\ gcall.op = "none"
    /\ counter < MaxCounter
    /\ LET r == next_counter(counter)
       IN  /\ counter' = r.counter
           /\ gcall' = [NoGraphCall EXCEPT !.op = "next_counter",
                            !.ret = r.ret, !.value = r.value, !.pre = Pre]
    /\ UNCHANGED <<nodes, edges, cycles, bagVars, cls, nodes_info, backpath,
                 theoryVars, setVars>>

\* dfs(node) called directly: the traversal goes on from the fields the last
\* calls left, without reset(); called while the counter is below the bound
Dfs ==
    /\ gcall.op = "none"
    /\ counter < MaxCounter
    /\ \E node \in Nodes, order \in IterationOrders(edges) :
        LET st == dfs(edges, order, Traversal, node)
        IN  /\ cycles' = st.cycles
            /\ nodes_info' = st.info
            /\ counter' = st.counter
            /\ backpath' = st.backpath
            /\ gcall' = [NoGraphCall EXCEPT !.op = "dfs",
                             !.val1 = node, !.order = order,
                             !.ret = IF st.ret = "ok" THEN "None" ELSE st.ret,
                             !.info = st.info, !.backpath = st.backpath,
                             !.found = st.cycles, !.pre = Pre]
            /\ UNCHANGED <<nodes, edges, bagVars, cls, theoryVars, setVars>>

\* g |= other, called while g has room for the edges of other
Ior ==
    /\ gcall.op = "none"
    /\ cls = "Graph"
    /\ EdgeCount(edges) + MaxOtherEdges <= MaxEdges
    /\ \E other \in OtherGraphs :
        LET r == Graph_ior(nodes, edges, cycles, other)
        IN  /\ nodes' = r.nodes
            /\ edges' = r.edges
            /\ cycles' = r.cycles
            /\ gcall' = [NoGraphCall EXCEPT !.op = "ior", !.other = other,
                                            !.otherAfter = r.other,
                                            !.pre = Pre]
            /\ nodes_info' = KeepInfo(nodes')
            /\ UNCHANGED <<bagVars, cls, counter, backpath, theoryVars,
                         setVars>>

\* g | other
Or ==
    /\ gcall.op = "none"
    /\ cls = "Graph"
    /\ \E other \in OtherGraphs :
        LET r == Graph_or(nodes, edges, other)
        IN  /\ gcall' = [NoGraphCall EXCEPT !.op = "or", !.other = other,
                                            !.otherAfter = r.other,
                                            !.result = r.result,
                                            !.pre = Pre]
            /\ UNCHANGED <<nodes, edges, cycles, bagVars, cls, travVars,
                         theoryVars, setVars>>

\* the caller goes on after the call, unless the call never ends
GraphReturn ==
    /\ gcall.op # "none"
    /\ gcall.ret # "diverges"
    /\ gcall' = NoGraphCall
    /\ UNCHANGED <<nodes, edges, cycles, bagVars, cls, travVars,
                 theoryVars, setVars>>

NextGraph ==
    \/ GraphReturn
    \/ AddNode
    \/ DeleteNode
    \/ AddEdge
    \/ DeleteEdge
    \/ Stratification
    \/ HasCycle
    \/ Dependencies
    \/ Reset
    \/ DepthFirstSearchNode
    \/ Dfs
    \/ NextCounter
    \/ Ior

\* one mutator call on a BagGraph, from the fields before to the fields after
BagCall(op, val1, val2, label, g) ==
    /\ nodes' = g.nodes
    /\ edges' = g.edges
    /\ cycles' = g.cycles
    /\ node_refcounts' = g.node_refcounts
    /\ edge_refcounts' = g.edge_refcounts
    /\ gcall' = [NoGraphCall EXCEPT !.op = op, !.val1 = val1, !.val2 = val2,
                                    !.label = label, !.raised = g.raised,
                                    !.pre = Pre]
    /\ nodes_info' = KeepInfo(nodes')
    /\ UNCHANGED <<cls, counter, backpath, theoryVars,
                 setVars>>

Bag == BagState(nodes, edges, cycles, node_refcounts, edge_refcounts)

BagAddNode ==
    /\ gcall.op = "none"
    /\ cls = "BagGraph"
    /\ \E val \in Nodes :
        /\ node_count(node_refcounts, val) < MaxNodeRefs
        /\ BagCall("add_node", val, "none", "none", BagGraph_add_node(Bag, val))

BagDeleteNode ==
    /\ gcall.op = "none"
    /\ cls = "BagGraph"
    /\ \E val \in Nodes :
        BagCall("delete_node", val, "none", "none",
                BagGraph_delete_node(Bag, val))

BagAddEdge ==
    /\ gcall.op = "none"
    /\ cls = "BagGraph"
    /\ SumOver(edge_refcounts, DOMAIN edge_refcounts) < MaxEdgeRefs
    /\ \E val1 \in Nodes, val2 \in Nodes, label \in Labels :
        BagCall("add_edge", val1, val2, label,
                BagGraph_add_edge(Bag, val1, val2, label))

BagDeleteEdge ==
    /\ gcall.op = "none"
    /\ cls = "BagGraph"
    /\ \E val1 \in Nodes, val2 \in Nodes, label \in Labels :
        BagCall("delete_edge", val1, val2, label,
                BagGraph_delete_edge(Bag, val1, val2, label))

\* b |= other on a BagGraph, called while the counts have room for the nodes
\* and the edges of other
BagIor ==
    /\ gcall.op = "none"
    /\ cls = "BagGraph"
    /\ SumOver(edge_refcounts, DOMAIN edge_refcounts) + MaxOtherEdges
          <= MaxEdgeRefs
    /\ \E other \in OtherGraphs :
        /\ \A val \in other.nodes :
              node_count(node_refcounts, val) < MaxNodeRefs
        /\ LET g == BagGraph_ior(Bag, other)
           IN  /\ nodes' = g.nodes
               /\ edges' = g.edges
               /\ cycles' = g.cycles
               /\ node_refcounts' = g.node_refcounts
               /\ edge_refcounts' = g.edge_refcounts
               /\ gcall' = [NoGraphCall EXCEPT !.op = "ior", !.other = other,
                                               !.otherAfter = other,
                                               !.raised = g.raised,
                                               !.pre = Pre]
               /\ nodes_info' = KeepInfo(nodes')
               /\ UNCHANGED <<cls, counter, backpath, theoryVars,
                            setVars>>

\* a BagGraph changed by its four mutators and by in-place union
NextBag ==
    \/ GraphReturn
    \/ BagAddNode
    \/ BagDeleteNode
    \/ BagAddEdge
    \/ BagDeleteEdge
    \/ BagIor

\* a BagGraph changed by add_edge and delete_edge only
NextBagEdges ==
    \/ GraphReturn
    \/ BagAddEdge
    \/ BagDeleteEdge

\* a Graph changed by its mutators and stratified: stratification reads
\* nodes and edges only, which no traversal changes and which the in-place
\* union changes by calls of add_node and add_edge
NextStratification ==
    \/ GraphReturn
    \/ AddNode
    \/ DeleteNode
    \/ AddEdge
    \/ DeleteEdge
    \/ Stratification

\* no traversal has been run on the object
Untraversed == counter = NoCounter

\* the object holds the cycle list and the dfs_data of every node, as a
\* traversal leaves them
Cached ==
    /\ counter # NoCounter
    /\ ~NoCycles(cycles)
    /\ DOMAIN nodes_info = nodes

\* a Graph built by its mutators and then traversed: by one of the traversals
\* that reset the fields first, and then by direct calls of dfs; it is
\* stratified before or after
NextTraversal ==
    \/ GraphReturn
    \/ Untraversed /\ AddNode
    \/ Untraversed /\ DeleteNode
    \/ Untraversed /\ AddEdge
    \/ Untraversed /\ DeleteEdge
    \/ Untraversed /\ HasCycle
    \/ Untraversed /\ Dependencies
    \/ Untraversed /\ DepthFirstSearchNode
    \/ Untraversed /\ Reset
    \/ Dfs
    \/ NextCounter
    \/ Stratification

\* a Graph built by its mutators and united with other graphs, traversed by
\* has_cycle(), and changed again while the traversal's cycle list is held
NextUnion ==
    \/ GraphReturn
    \/ Untraversed /\ AddNode
    \/ Untraversed /\ DeleteNode
    \/ Untraversed /\ AddEdge
    \/ Untraversed /\ DeleteEdge
    \/ Untraversed /\ Ior
    \/ Untraversed /\ Or
    \/ Untraversed /\ HasCycle
    \/ Cached /\ AddNode
    \/ Cached /\ DeleteNode
    \/ Cached /\ AddEdge
    \/ Cached /\ DeleteEdge
    \/ Cached /\ Ior

\* the mutators of a Graph and of a BagGraph
NextMutators ==
    \/ GraphReturn
    \/ AddNode
    \/ DeleteNode
    \/ AddEdge
    \/ DeleteEdge
    \/ BagAddNode
    \/ BagDeleteNode
    \/ BagAddEdge
    \/ BagDeleteEdge

---------------------------------------------------------------------------
(* OrderedSet (utility.py): a doubly linked list of keys closed by a        *)
(* sentinel node, and a map from each key to its list node                  *)

MaxKeys == 3
Keys == 1..MaxKeys

\* the sentinel list node `end`; its own key is None
Sentinel == 0

\* a list node [key, prev, next] without its key: the nodes it points to
Link(prev, next) == [prev |-> prev, next |-> next]

\* __init__ without an iterable
OrderedSet_init == [end |-> Link(Sentinel, Sentinel), map |-> << >>]

OrderedSet_len(s) == Cardinality(DOMAIN s.map)

OrderedSet_contains(s, key) == key \in DOMAIN s.map

\* node[2] = target, node being the sentinel or the list node of a key
set_next(s, node, target) ==
    IF node = Sentinel THEN [s EXCEPT !.end.next = target]
    ELSE [s EXCEPT !.map[node].next = target]

\* node[1] = target
set_prev(s, node, target) ==
    IF node = Sentinel THEN [s EXCEPT !.end.prev = target]
    ELSE [s EXCEPT !.map[node].prev = target]

OrderedSet_add(s, key) ==
    IF ~OrderedSet_contains(s, key)
    THEN LET curr == s.end.prev
             s1 == set_next(s, curr, key)
             s2 == set_prev(s1, Sentinel, key)
             s3 == [s2 EXCEPT !.map = Put(@, key, Link(curr, Sentinel))]
         IN  [set |-> s3, ret |-> TRUE]
    ELSE [set |-> s, ret |-> FALSE]

\* variant: the successor's back link is not repaired
OrderedSet_discard_half_unlinked(s, key) ==
    IF OrderedSet_contains(s, key)
    THEN LET prev == s.map[key].prev
             next == s.map[key].next
             s1 == [s EXCEPT !.map = Drop(@, key)]
             s2 == set_next(s1, prev, next)
         IN  [set |-> s2, ret |-> TRUE]
    ELSE [set |-> s, ret |-> FALSE]

OrderedSet_discard(s, key) ==
    IF OrderedSet_contains(s, key)
    THEN LET prev == s.map[key].prev
             next == s.map[key].next
             s1 == [s EXCEPT !.map = Drop(@, key)]
             s2 == set_next(s1, prev, next)
             s3 == set_prev(s2, next, prev)
         IN  [set |-> s3, ret |-> TRUE]
    ELSE [set |-> s, ret |-> FALSE]

\* the keys yielded by following one link field from curr up to the sentinel;
\* a walk that has yielded more keys than the map holds never ends, and a link
\* to a node that is no longer in the map yields that node's stale key
RECURSIVE OrderedSet_walk(_, _, _, _)
OrderedSet_walk(s, curr, forward, out) ==
    IF curr = Sentinel THEN [ret |-> "ok", keys |-> out]
    ELSE IF Len(out) > OrderedSet_len(s) \/ ~OrderedSet_contains(s, curr)
    THEN [ret |-> "diverges", keys |-> Append(out, curr)]
    ELSE OrderedSet_walk(s, IF forward THEN s.map[curr].next
                            ELSE s.map[curr].prev,
                         forward, Append(out, curr))

OrderedSet_iter(s) == OrderedSet_walk(s, s.end.next, TRUE, << >>)

OrderedSet_reversed(s) == OrderedSet_walk(s, s.end.prev, FALSE, << >>)

OrderedSet_pop(s, last) ==
    IF OrderedSet_len(s) = 0
    THEN [set |-> s, ret |-> Sentinel, raised |-> TRUE]
    ELSE LET key == IF last THEN s.end.prev ELSE s.end.next
         IN  [set |-> OrderedSet_discard(s, key).set, ret |-> key,
              raised |-> FALSE]

\* the OrderedSet object
TheSet == [end |-> set_end, map |-> set_map]

NoSetCall ==
    [op |-> "none", key |-> Sentinel, last |-> FALSE, ret |-> FALSE,
     popped |-> Sentinel, raised |-> FALSE, pre |-> OrderedSet_init]

SetAdd ==
    /\ scall.op = "none"
    /\ \E key \in Keys :
          LET r == OrderedSet_add(TheSet, key)
          IN  /\ set_end' = r.set.end
              /\ set_map' = r.set.map
              /\ scall' = [NoSetCall EXCEPT !.op = "add", !.key = key,
                                            !.ret = r.ret, !.pre = TheSet]
    /\ UNCHANGED <<graphVars, theoryVars>>

SetDiscard ==
    /\ scall.op = "none"
    /\ \E key \in Keys :
          LET r == OrderedSet_discard(TheSet, key)
          IN  /\ set_end' = r.set.end
              /\ set_map' = r.set.map
              /\ scall' = [NoSetCall EXCEPT !.op = "discard", !.key = key,
                                            !.ret = r.ret, !.pre = TheSet]
    /\ UNCHANGED <<graphVars, theoryVars>>

SetPop ==
    /\ scall.op = "none"
    /\ \E last \in BOOLEAN :
          LET r == OrderedSet_pop(TheSet, last)
          IN  /\ set_end' = r.set.end
              /\ set_map' = r.set.map
              /\ scall' = [NoSetCall EXCEPT !.op = "pop", !.last = last,
                                            !.popped = r.ret,
                                            !.raised = r.raised,
                                            !.pre = TheSet]
    /\ UNCHANGED <<graphVars, theoryVars>>

SetReturn ==
    /\ scall.op # "none"
    /\ scall' = NoSetCall
    /\ UNCHANGED <<set_end, set_map, graphVars, theoryVars>>

NextSet ==
    \/ SetReturn
    \/ SetAdd
    \/ SetDiscard
    \/ SetPop

Classes == {"Graph", "BagGraph"}

\* the state after the constructors: an empty theory and an empty graph
\* object of class c
InitOf(c) ==
    /\ rules = EmptyRuleSet
    /\ call = NoCall
    /\ cls = c
    /\ nodes = {}
    /\ edges = << >>
    /\ cycles = "None"
    /\ node_refcounts = << >>
    /\ edge_refcounts = << >>
    /\ nodes_info = << >>
    /\ counter = NoCounter
    /\ backpath = << >>
    /\ gcall = NoGraphCall
    /\ set_end = OrderedSet_init.end
    /\ set_map = OrderedSet_init.map
    /\ scall = NoSetCall

Init == InitOf("Graph")

InitBag == InitOf("BagGraph")

InitAny == \E c \in Classes : InitOf(c)

SpecTheory == Init /\ [][NextTheory]_vars

\* the object is a Graph and its methods are called in any order; the
\* properties of a Graph are checked under the specifications after this one,
\* which call the same actions in the orders named at their next-state
\* relations
SpecGraph == Init /\ [][NextGraph]_vars

SpecStratification == Init /\ [][NextStratification]_vars

SpecUnion == Init /\ [][NextUnion]_vars

SpecTraversal == Init /\ [][NextTraversal]_vars

\* the object is a BagGraph
SpecBag == InitBag /\ [][NextBag]_vars

SpecBagEdges == InitBag /\ [][NextBagEdges]_vars

\* the object is a Graph or a BagGraph, changed by its mutators
SpecMutators == InitAny /\ [][NextMutators]_vars

\* an empty OrderedSet changed by add, discard and pop
SpecSet == Init /\ [][NextSet]_vars

Next == NextTheory \/ NextGraph \/ Or \/ NextBag \/ NextSet

Spec == InitAny /\ [][Next]_vars

---------------------------------------------------------------------------
(* Properties of the rule theory, checked under SpecTheory *)

\* the rule an event's formula stands for in the store: its body reordered
\* for safety, a bare atom as a rule with an empty body
StoredForm(f) ==
    LET g == reorder_for_safety(f)
    IN  IF is_atom(g) THEN Rule(g.table, g.arg, <<>>) ELSE g

\* a formula as a rule, its body as the caller wrote it
AsWritten(f) == IF is_atom(f) THEN Rule(f.table, f.arg, <<>>) ELSE f

\* whether rule r is stored at the moment event i of the batch is applied:
\* decided by the last earlier event of the batch about r, else by the store
\* before the call
StoredAt(pre, events, i, r) ==
    LET earlier == { j \in 1..(i - 1) : StoredForm(events[j].formula) = r }
    IN  IF earlier = {} THEN r \in content(pre)
        ELSE events[CHOOSE j \in earlier : \A k \in earlier : k <= j].insert

Effective(pre, events, i) ==
    events[i].insert # StoredAt(pre, events, i, StoredForm(events[i].formula))

RECURSIVE EffectiveFrom(_, _, _)
EffectiveFrom(pre, events, i) ==
    IF i > Len(events) THEN <<>>
    ELSE (IF Effective(pre, events, i) THEN <<events[i]>> ELSE <<>>)
         \o EffectiveFrom(pre, events, i + 1)

StorableRules == { StoredForm(f) : f \in Formulas \ {Other} }

\* the store holds exactly the rules the first n events of the batch leave
StoreIsAfter(rs, pre, events, n) ==
    /\ content(rs) \subseteq StorableRules \cup content(pre)
    /\ \A r \in StorableRules \cup content(pre) :
          r \in content(rs) <=> StoredAt(pre, events, n + 1, r)

\* C1: an update that raises nothing returns exactly the events that changed
\* the store, in their order: an insert iff its rule was not stored when it was
\* applied, a delete iff it was; each event sees the effect of the earlier ones
C1_UpdateReturnsEffectiveEvents ==
    (call.op = "update" /\ ~call.raised) =>
        /\ call.ret = EffectiveFrom(call.pre, call.events, 1)
        /\ StoreIsAfter(rules, call.pre, call.events, Len(call.events))

\* an insert of a rule that was not stored and a delete of the same rule in one
\* batch: both are returned, and a third event of the batch is not
C1_Witness ==
    /\ call.op = "update" /\ ~call.raised /\ Len(call.events) = 3
    /\ call.events[1].insert /\ ~call.events[2].insert
    /\ StoredForm(call.events[1].formula) = StoredForm(call.events[2].formula)
    /\ StoredForm(call.events[1].formula) \notin content(call.pre)
    /\ call.ret = <<call.events[1], call.events[2]>>

FirstRaising(events) ==
    CHOOSE k \in DOMAIN events :
        /\ ~is_datalog(events[k].formula)
        /\ \A j \in 1..(k - 1) : is_datalog(events[j].formula)

\* C2: when event k of an update raises, the exception reaches the caller, the
\* changes of events 1..k-1 stay in the store and none of events k..n is applied
C2_NoRollbackOnException ==
    (call.op = "update") =>
        /\ call.raised <=> \E k \in DOMAIN call.events : ~is_datalog(call.events[k].formula)
        /\ call.raised =>
              StoreIsAfter(rules, call.pre, call.events, FirstRaising(call.events) - 1)

\* the second of three events raises after the first changed the store, and the
\* third would have changed it too
C2_Witness ==
    /\ call.op = "update" /\ call.raised /\ Len(call.events) = 3
    /\ FirstRaising(call.events) = 2
    /\ rules # call.pre
    /\ call.events[3].insert
    /\ is_datalog(call.events[3].formula)
    /\ StoredForm(call.events[3].formula) \notin content(rules)

DefinedFormulas == { call.events[i].formula : i \in DOMAIN call.events }

\* C3 as stated: after define(R) the content is exactly the rules of R as the
\* caller wrote them
C3_Original ==
    (call.op = "define" /\ ~call.raised) =>
        content(rules) = { AsWritten(f) : f \in DefinedFormulas }

\* C3 (amended): after a define(R) that raises nothing, content() is exactly the
\* set of the rules of R in their stored form (body reordered for safety, a bare
\* atom as a rule with an empty body); nothing stored before survives unless it
\* is the stored form of a rule of R
C3_DefineRoundTrip ==
    (call.op = "define" /\ ~call.raised) =>
        content(rules) = { StoredForm(f) : f \in DefinedFormulas }

\* define of a list holding a rule whose body gets reordered, on a store that
\* held a rule which is not in the list
C3_Witness ==
    /\ call.op = "define" /\ ~call.raised
    /\ \E f \in DefinedFormulas : StoredForm(f) # AsWritten(f)
    /\ \E r \in content(call.pre) : r \notin content(rules)
    /\ Cardinality(content(rules)) >= 2

\* C4: inserting a rule that is stored returns no change and leaves the store
\* as it is; of two successive insert(r) on a theory without r the first
\* returns one change, the second none, and the rule count stays
C4_IdempotentInsert ==
    [][ /\ ( /\ call'.op = "insert"
             /\ StoredForm(call'.events[1].formula) \in content(rules)
             /\ is_datalog(call'.events[1].formula) )
           => (call'.ret = <<>> /\ ~call'.raised /\ rules' = rules)
        /\ ( /\ call.op = "insert" /\ call'.op = "insert"
             /\ call'.events = call.events
             /\ is_datalog(call.events[1].formula)
             /\ StoredForm(call.events[1].formula) \notin content(call.pre) )
           => ( /\ Len(call.ret) + Len(call'.ret) = 1
                /\ Cardinality(content(rules')) = Cardinality(content(rules))
                /\ Cardinality(content(rules)) = Cardinality(content(call.pre)) + 1 )
      ]_vars

\* an insert of a rule, written with its negated literal first, that is stored
C4_Witness ==
    /\ call.op = "insert" /\ call.ret = <<>> /\ ~call.raised
    /\ StoredForm(call.events[1].formula) # AsWritten(call.events[1].formula)
    /\ StoredForm(call.events[1].formula) \in content(call.pre)
    /\ rules = call.pre

\* C5: delete(r) of a rule or fact that is not stored returns no change, raises
\* nothing and leaves the store as it is
C5_DeleteOfAbsent ==
    ( /\ call.op = "delete"
      /\ is_datalog(call.events[1].formula)
      /\ StoredForm(call.events[1].formula) \notin content(call.pre) )
    => (call.ret = <<>> /\ ~call.raised /\ rules = call.pre)

\* a delete of a fact that is not stored, from a table that holds another fact
C5_Witness ==
    /\ call.op = "delete" /\ call.ret = <<>>
    /\ is_atom(call.events[1].formula)
    /\ StoredForm(call.events[1].formula) \notin content(call.pre)
    /\ get_rules(call.pre, call.events[1].formula.table) # {}

FactsFor(facts, t) == { f \in Range(facts) : f.table = t }

\* C6: after initialize_tables(T, F) every table named in T or holding a fact of
\* F contains exactly the facts of F for it, and every other table is unchanged
C6_InitializeTables ==
    (call.op = "initialize_tables") =>
        \A t \in Tables :
            IF t \in Range(call.tablenames) \/ FactsFor(call.facts, t) # {}
            THEN get_rules(rules, t) = FactsFor(call.facts, t)
            ELSE get_rules(rules, t) = get_rules(call.pre, t)

\* two facts for a table outside T that held a rule which is no fact of F, T
\* naming a table that held rules and gets no fact
C6_Witness ==
    /\ call.op = "initialize_tables"
    /\ call.tablenames = <<"q">>
    /\ get_rules(call.pre, "q") # {}
    /\ Cardinality(FactsFor(call.facts, "p")) = 2
    /\ FactsFor(call.facts, "q") = {}
    /\ ~(get_rules(call.pre, "p") \subseteq Range(call.facts))

\* C7: empty(tablenames) removes the rules of exactly the named tables,
\* empty(tablenames, invert=True) those of every other defined table, and
\* empty() every rule; the other tables are unchanged
C7_Empty ==
    (call.op = "empty") =>
        \A t \in Tables :
            get_rules(rules, t) =
                IF call.all THEN {}
                ELSE IF (t \in Range(call.tablenames)) # call.invert THEN {}
                ELSE get_rules(call.pre, t)

\* an inverted empty naming one of two defined tables
C7_Witness ==
    /\ call.op = "empty" /\ call.invert /\ call.tablenames = <<"p">>
    /\ get_rules(call.pre, "p") # {} /\ get_rules(call.pre, "q") # {}
    /\ get_rules(rules, "p") = get_rules(call.pre, "p")
    /\ get_rules(rules, "q") = {}

\* C8: update_would_cause_errors leaves the rule store as it was, for each of
\* the three classes and whether or not it reports errors; the unsafe class
\* reports none
C8_ValidationDoesNotMutate ==
    (call.op = "update_would_cause_errors") =>
        /\ rules = call.pre
        /\ call.kind = "unsafe" => call.ret = <<>>

\* errors are reported for the insert of a rule that is not stored
C8_Witness ==
    /\ call.op = "update_would_cause_errors" /\ call.kind = "action"
    /\ call.ret # <<>>
    /\ Len(call.events) = 1 /\ call.events[1].insert
    /\ is_datalog(call.events[1].formula)
    /\ StoredForm(call.events[1].formula) \notin content(rules)
    /\ rules # EmptyRuleSet

---------------------------------------------------------------------------
(* Properties of Graph.stratification, checked under SpecStratification *)

StratumOK(stratum, t, labels) ==
    /\ t[2] \in DOMAIN stratum
    /\ stratum[t[1]] >= stratum[t[2]]
    /\ t[3] \in labels => stratum[t[1]] >= stratum[t[2]] + 1

\* C9: a mapping returned by stratification(labels) gives every node a stratum
\* in 1..|nodes|, with stratum[u] >= stratum[v] for every edge u->v and
\* stratum[u] >= stratum[v] + 1 when the edge's label is in labels
C9_StratificationSound ==
    (gcall.op = "stratification" /\ gcall.ret = "mapping") =>
        /\ DOMAIN gcall.stratum = nodes
        /\ \A n \in nodes : gcall.stratum[n] \in 1..Cardinality(nodes)
        /\ \A t \in AllEdges(edges) : StratumOK(gcall.stratum, t, gcall.labels)

\* a mapping for a chain of two stratifying edges, read in an order that needs
\* a second pass: the top node is in stratum 3
C9_Witness ==
    /\ gcall.op = "stratification" /\ gcall.ret = "mapping"
    /\ gcall.passes >= 3
    /\ \E n \in nodes : gcall.stratum[n] = 3
    /\ \E t \in AllEdges(edges) : t[3] \notin gcall.labels

\* y is reached from x along zero or more edges
RECURSIVE ReachableIn(_, _, _, _)
ReachableIn(es, x, y, n) ==
    \/ x = y
    \/ /\ n > 0
       /\ \E t \in AllEdges(es) : t[1] = x /\ ReachableIn(es, t[2], y, n - 1)

Reachable(es, x, y) == ReachableIn(es, x, y, Cardinality(AllEdges(es)))

\* a directed cycle through an edge whose label is in labels
HasStratifyingCycle(es, labels) ==
    \E t \in AllEdges(es) : t[3] \in labels /\ Reachable(es, t[2], t[1])

\* an edge whose target is no node of the graph
Dangling(ns, es) == { t \in AllEdges(es) : t[2] \notin ns }

\* C10: stratification(labels) returns null iff the graph has a directed cycle
\* through an edge whose label is in labels, a mapping otherwise, and never
\* raises
C10_NullIffStratifyingCycle ==
    (gcall.op = "stratification") =>
        /\ gcall.ret # "KeyError"
        /\ gcall.ret = "None" <=> HasStratifyingCycle(edges, gcall.labels)

\* the same for the graphs in which every edge ends at a node: there the
\* claim holds
C10_HoldsWithoutDanglingEdges ==
    (gcall.op = "stratification" /\ Dangling(nodes, edges) = {}) =>
        /\ gcall.ret # "KeyError"
        /\ gcall.ret = "None" <=> HasStratifyingCycle(edges, gcall.labels)

\* C11: stratification(labels) terminates on every finite graph and label
\* set, for every iteration order: it ends by returning a mapping or None or
\* by raising, every pass but the last has raised a stratum, and no stratum
\* is raised above len(nodes) + 1, which bounds the number of passes
C11_StratificationTerminates ==
    (gcall.op = "stratification") =>
        /\ gcall.ret \in {"mapping", "None", "KeyError"}
        /\ \A n \in DOMAIN gcall.stratum :
              gcall.stratum[n] <= Cardinality(nodes) + 1
        /\ gcall.passes <=
              1 + SumOver([n \in DOMAIN gcall.stratum |-> gcall.stratum[n] - 1],
                          DOMAIN gcall.stratum)

\* a cycle through a stratifying edge over three nodes: the loop is left by
\* the bound on the strata, after more passes than there are nodes
C11_Witness ==
    /\ gcall.op = "stratification" /\ gcall.ret = "None"
    /\ Cardinality(nodes) = 3
    /\ gcall.passes > 3
    /\ HasStratifyingCycle(edges, gcall.labels)

---------------------------------------------------------------------------
(* Properties of the depth-first traversal, checked under SpecTraversal *)

\* a directed cycle, self-loops included
HasDirectedCycle(es) == \E t \in AllEdges(es) : Reachable(es, t[2], t[1])

\* the graphs that add_node and add_edge build: every edge has its two ends
\* in the node set and no source is left with an empty edge set
BuiltByAdding(ns, es) ==
    /\ DOMAIN es \subseteq ns
    /\ \A u \in DOMAIN es : es[u] # {}
    /\ Dangling(ns, es) = {}

\* C12: on a graph built with add_node/add_edge, has_cycle() returns true iff
\* the graph has a directed cycle, for every iteration order and whatever
\* traversal ran before
C12_HasCycleIffCycle ==
    (gcall.op = "has_cycle" /\ BuiltByAdding(nodes, edges)) =>
        /\ gcall.ret \in {"True", "False"}
        /\ gcall.ret = "True" <=> HasDirectedCycle(edges)

\* the same for the calls that return: a call that returns gives the right
\* answer, on every graph
C12_HoldsWhenHasCycleReturns ==
    (gcall.op = "has_cycle" /\ gcall.ret \in {"True", "False"}) =>
        (gcall.ret = "True" <=> HasDirectedCycle(edges))

\* c lists each of its nodes once, and each consecutive pair of it, and its
\* last node with its first, is an edge of the graph
IsCycleOf(es, c) ==
    /\ Len(c) > 0
    /\ \A i, j \in 1..Len(c) : i # j => c[i] # c[j]
    /\ \A i \in 1..Len(c) :
          \E t \in AllEdges(es) :
              t[1] = c[i] /\ t[2] = c[IF i = Len(c) THEN 1 ELSE i + 1]

\* C13: every cycle recorded by a traversal lists each of its nodes once and
\* follows edges of the graph, last node to first included (for the edges
\* a->b, b->c, c->a: the nodes a, b, c in this order, up to rotation)
C13_RecordedCycles ==
    (gcall.op = "has_cycle" /\ gcall.ret \in {"True", "False"}) =>
        \A i \in 1..Len(gcall.found) : IsCycleOf(edges, gcall.found[i])

\* C14: dependencies(n) of a node of the graph returns exactly the nodes
\* reachable from n, n included; for a node not in the graph it returns None
\* and leaves the graph and the traversal state as they were
C14_Dependencies ==
    (gcall.op = "dependencies") =>
        IF gcall.val1 \in nodes
        THEN /\ gcall.ret = "set"
             /\ gcall.deps = { x \in nodes : Reachable(edges, gcall.val1, x) }
        ELSE /\ gcall.ret = "None"
             /\ gcall.pre = Pre

\* the same for the calls that return
C14_HoldsWhenDependenciesReturns ==
    (gcall.op = "dependencies" /\ gcall.ret \in {"set", "None"}) =>
        IF gcall.val1 \in nodes
        THEN /\ gcall.ret = "set"
             /\ gcall.deps = { x \in nodes : Reachable(edges, gcall.val1, x) }
        ELSE /\ gcall.ret = "None"
             /\ gcall.pre = Pre

\* x's interval lies within y's
Nested(info, y, x) ==
    /\ info[y].begin <= info[x].begin
    /\ info[x].begin < info[x].end
    /\ info[x].end <= info[y].end

\* y is reached from x along zero or more edges through nodes of S only
RECURSIVE ReachableWithin(_, _, _, _, _)
ReachableWithin(es, S, x, y, n) ==
    /\ x \in S
    /\ \/ x = y
       \/ /\ n > 0
          /\ \E t \in AllEdges(es) :
                t[1] = x /\ ReachableWithin(es, S, t[2], y, n - 1)

\* C15 as stated: after depth_first_search(), for all x reachable from y,
\* y.begin <= x.begin < x.end <= y.end
C15_Original ==
    (gcall.op = "has_cycle" /\ gcall.ret \in {"True", "False"}) =>
        \A x, y \in nodes :
            Reachable(edges, y, x) => Nested(gcall.info, y, x)

\* C15: after a depth_first_search() that returns, for all x reachable from y
\* along a path on which no node was begun before y,
\* y.begin <= x.begin < x.end <= y.end
C15_NestedAlongUnvisitedPaths ==
    (gcall.op = "has_cycle" /\ gcall.ret \in {"True", "False"}) =>
        \A x, y \in nodes :
            LET notBefore == { w \in nodes :
                                 gcall.info[w].begin >= gcall.info[y].begin }
            IN  ReachableWithin(edges, notBefore, y, x,
                                Cardinality(AllEdges(edges)))
                    => Nested(gcall.info, y, x)

\* three nodes: x is begun after y, is reached from y and lies within y's
\* interval, while z, begun before y, is reachable from y and lies outside it
C15_Witness ==
    /\ gcall.op = "has_cycle" /\ gcall.ret \in {"True", "False"}
    /\ \E x, y, z \in nodes :
          /\ x # y /\ y # z /\ x # z
          /\ ReachableWithin(edges, { w \in nodes : gcall.info[w].begin >=
                                                    gcall.info[y].begin },
                             y, x, Cardinality(AllEdges(edges)))
          /\ Nested(gcall.info, y, x)
          /\ Reachable(edges, y, z)
          /\ ~Nested(gcall.info, y, z)

---------------------------------------------------------------------------
(* Properties of the mutators of Graph and BagGraph *)

AllTriples == { <<u, v, l>> : u \in Nodes, v \in Nodes, l \in Labels }

\* the edge a recorded add_edge or delete_edge call names
CallEdge == <<gcall.val1, gcall.val2, gcall.label>>

\* C16: in a BagGraph changed only by add_edge and delete_edge, every
\* add_edge raises the count of its edge by one, every delete_edge that finds
\* its edge present lowers it by one and every other delete_edge changes no
\* count, so the count is the number of adds less the number of such deletes;
\* an edge is present, for edge_in and in the underlying edges, iff its count
\* is positive; the delete that brings the count to zero removes the edge, and
\* an endpoint is a node iff its own count is still positive
C16_EdgeCounts ==
    /\ gcall.op = "add_edge" =>
          edge_refcounts = Put(gcall.pre.edge_refcounts, CallEdge,
                               count(gcall.pre.edge_refcounts, CallEdge) + 1)
    /\ (gcall.op = "delete_edge"
            /\ count(gcall.pre.edge_refcounts, CallEdge) > 0) =>
          /\ edge_count(edge_refcounts, gcall.val1, gcall.val2, gcall.label)
                = count(gcall.pre.edge_refcounts, CallEdge) - 1
          /\ \A e \in AllTriples \ {CallEdge} :
                count(edge_refcounts, e) = count(gcall.pre.edge_refcounts, e)
    /\ (gcall.op = "delete_edge"
            /\ count(gcall.pre.edge_refcounts, CallEdge) = 0) =>
          edge_refcounts = gcall.pre.edge_refcounts
    /\ \A e \in AllTriples :
          /\ BagGraph_edge_in(edge_refcounts, e[1], e[2], e[3])
                <=> edge_count(edge_refcounts, e[1], e[2], e[3]) > 0
          /\ e \in AllEdges(edges)
                <=> edge_count(edge_refcounts, e[1], e[2], e[3]) > 0
    /\ \A v \in Nodes :
          /\ v \in nodes <=> node_count(node_refcounts, v) > 0
          /\ BagGraph_node_in(node_refcounts, v)
                <=> node_count(node_refcounts, v) > 0

\* an edge added twice and deleted once is present with count 1
C16_Witness ==
    /\ gcall.op = "delete_edge"
    /\ count(gcall.pre.edge_refcounts, CallEdge) = 2
    /\ edge_count(edge_refcounts, gcall.val1, gcall.val2, gcall.label) = 1
    /\ BagGraph_edge_in(edge_refcounts, gcall.val1, gcall.val2, gcall.label)
    /\ CallEdge \in AllEdges(edges)

\* the delete that brings the count to zero removes the edge and the one
\* endpoint that nothing else refers to
C16_WitnessLastDelete ==
    /\ gcall.op = "delete_edge"
    /\ count(gcall.pre.edge_refcounts, CallEdge) = 1
    /\ CallEdge \notin AllEdges(edges)
    /\ gcall.val1 \in nodes
    /\ gcall.val2 \notin nodes

\* C17: in a BagGraph, after any calls of the four mutators, a node is in the
\* underlying nodes iff its reference count is positive and an edge is in the
\* underlying edges iff its reference count is positive
C17_StructureMatchesCounts ==
    /\ \A v \in Nodes : v \in nodes <=> node_count(node_refcounts, v) > 0
    /\ \A e \in AllTriples :
          e \in AllEdges(edges)
              <=> edge_count(edge_refcounts, e[1], e[2], e[3]) > 0

\* the part of it about nodes holds
C17_NodesMatchCounts ==
    \A v \in Nodes : v \in nodes <=> node_count(node_refcounts, v) > 0

\* val is no node / e is no edge of the object as it was before the call:
\* self.nodes has no key val, self.edges[e[1]] does not exist or holds no
\* edge_data(e[2], e[3])
NodeAbsentBefore(val) == val \notin gcall.pre.nodes

EdgeAbsentBefore(e) == e \notin AllEdges(gcall.pre.edges)

\* the same by the membership test of the object's class (node_in, edge_in):
\* a BagGraph tests its reference counts
NodeNotInBefore(val) ==
    IF cls = "BagGraph"
    THEN ~BagGraph_node_in(gcall.pre.node_refcounts, val)
    ELSE val \notin gcall.pre.nodes

EdgeNotInBefore(e) ==
    IF cls = "BagGraph"
    THEN ~BagGraph_edge_in(gcall.pre.edge_refcounts, e[1], e[2], e[3])
    ELSE e \notin AllEdges(gcall.pre.edges)

UnchangedByCall ==
    /\ nodes = gcall.pre.nodes
    /\ edges = gcall.pre.edges
    /\ node_refcounts = gcall.pre.node_refcounts
    /\ edge_refcounts = gcall.pre.edge_refcounts

\* C18: in Graph and BagGraph, delete_node of an absent node and delete_edge
\* of an absent edge raise nothing and leave nodes, edges and reference
\* counts unchanged, in every state the mutators reach; no call of a mutator
\* fails the assertion of Graph.delete_node
C18_DeleteOfAbsent ==
    /\ ~gcall.raised
    /\ (gcall.op = "delete_node" /\ NodeAbsentBefore(gcall.val1)) =>
          UnchangedByCall
    /\ (gcall.op = "delete_edge" /\ EdgeAbsentBefore(CallEdge)) =>
          UnchangedByCall

\* it holds for what the membership test of the class calls absent: no call
\* raises, and a delete of a node or an edge that node_in / edge_in does not
\* find changes nothing
C18_HoldsForMembershipTest ==
    /\ ~gcall.raised
    /\ (gcall.op = "delete_node" /\ NodeNotInBefore(gcall.val1)) =>
          UnchangedByCall
    /\ (gcall.op = "delete_edge" /\ EdgeNotInBefore(CallEdge)) =>
          UnchangedByCall

\* the case in which it fails: delete_edge on a BagGraph of an edge whose
\* source is no node and which self.edges does not hold, but which is still
\* counted; the call changes the object
C18_CountedButAbsent ==
    /\ cls = "BagGraph"
    /\ gcall.op = "delete_edge"
    /\ gcall.val1 \notin gcall.pre.nodes
    /\ EdgeAbsentBefore(CallEdge)
    /\ ~EdgeNotInBefore(CallEdge)
    /\ ~UnchangedByCall

\* delete_edge with a label that does not match, on a BagGraph that holds the
\* same two nodes joined under another label
C18_Witness ==
    /\ cls = "BagGraph"
    /\ gcall.op = "delete_edge"
    /\ EdgeNotInBefore(CallEdge)
    /\ \E e \in DOMAIN gcall.pre.edge_refcounts :
          e[1] = gcall.val1 /\ e[2] = gcall.val2 /\ e[3] # gcall.label
    /\ UnchangedByCall

\* delete_node of an unknown node on a Graph that holds edges
C18_WitnessGraphNode ==
    /\ cls = "Graph"
    /\ gcall.op = "delete_node"
    /\ NodeAbsentBefore(gcall.val1)
    /\ AllEdges(edges) # {}
    /\ ~gcall.raised

\* C19: after any calls of the mutators every stored edge has its source and
\* its target in the node set, and has_cycle, dependencies and stratification
\* never fail on a missing node
C19_NoDanglingEdge ==
    /\ DOMAIN edges \subseteq nodes
    /\ Dangling(nodes, edges) = {}
    /\ gcall.op \in {"has_cycle", "dependencies", "stratification"} =>
          gcall.ret # "KeyError"

\* the sources of the stored edges are nodes: only targets are left dangling
C19_SourcesAreNodes == DOMAIN edges \subseteq nodes

GraphMutators == {"add_node", "delete_node", "add_edge", "delete_edge"}

\* C20: a mutation that changes the graph (add_node, delete_node, add_edge,
\* delete_edge, in-place union with a non-empty graph) leaves the cached cycle
\* list cleared, and a cleared list stays cleared over every mutator call, so
\* no cycle list of an earlier graph is readable after the graph has changed
C20_MutationClearsCycles ==
    (gcall.op \in GraphMutators \cup {"ior"}) =>
        /\ (nodes # gcall.pre.nodes \/ edges # gcall.pre.edges) =>
              NoCycles(cycles)
        /\ NoCycles(gcall.pre.cycles) => NoCycles(cycles)
        /\ (gcall.op = "ior"
               /\ Graph_len(gcall.other.nodes, gcall.other.edges) # 0) =>
              NoCycles(cycles)

\* what holds: add_edge, a delete_edge that finds its edge and the in-place
\* union with a non-empty graph clear the list
C20_EdgeMutationClearsCycles ==
    (gcall.op \in {"add_edge", "delete_edge", "ior"}) =>
        /\ (nodes # gcall.pre.nodes \/ edges # gcall.pre.edges) =>
              NoCycles(cycles)
        /\ gcall.op = "add_edge" => NoCycles(cycles)
        /\ (gcall.op = "ior"
               /\ Graph_len(gcall.other.nodes, gcall.other.edges) # 0) =>
              NoCycles(cycles)
        /\ NoCycles(gcall.pre.cycles) => NoCycles(cycles)

\* the edges between the ends of the recorded call under another label
OtherLabels == { e \in AllTriples : /\ e[1] = gcall.val1
                                    /\ e[2] = gcall.val2
                                    /\ e[3] # gcall.label }

\* C21: the label is part of edge identity: delete_edge(u,v,l) and
\* add_edge(u,v,l) leave every edge (u,v,l') with another label as it was, in
\* the underlying edges and in its count, and after add_edge(u,v,l) the edge
\* with label l is stored beside them
C21_LabelIsIdentity ==
    (gcall.op \in {"add_edge", "delete_edge"}) =>
        /\ \A e \in OtherLabels :
              /\ e \in AllEdges(edges) <=> e \in AllEdges(gcall.pre.edges)
              /\ count(edge_refcounts, e) = count(gcall.pre.edge_refcounts, e)
        /\ gcall.op = "add_edge" => CallEdge \in AllEdges(edges)

\* the same for a Graph: there it holds
C21_HoldsForGraph == (cls = "Graph") => C21_LabelIsIdentity

\* the same for the counts of a BagGraph alone: they hold too
C21_HoldsForCounts ==
    (gcall.op \in {"add_edge", "delete_edge"}) =>
        \A e \in OtherLabels :
            count(edge_refcounts, e) = count(gcall.pre.edge_refcounts, e)

---------------------------------------------------------------------------
(* Properties of the union of graphs, checked under SpecUnion *)

UnitedWith(ns, es, result) ==
    /\ result.nodes = ns \cup gcall.other.nodes
    /\ AllEdges(result.edges) = AllEdges(es) \cup AllEdges(gcall.other.edges)

\* C22: g |= other with a non-empty other leaves g with the union of the two
\* node sets and of the two edge sets, with an empty other it changes neither
\* g's nodes and edges nor its cached cycles; g | other returns a new graph
\* with the united nodes and edges and leaves g as it was; other is not
\* modified by either
C22_Union ==
    /\ gcall.op = "ior" =>
          /\ IF Graph_len(gcall.other.nodes, gcall.other.edges) > 0
             THEN UnitedWith(gcall.pre.nodes, gcall.pre.edges,
                             [nodes |-> nodes, edges |-> edges])
             ELSE /\ nodes = gcall.pre.nodes
                  /\ edges = gcall.pre.edges
                  /\ cycles = gcall.pre.cycles
          /\ gcall.otherAfter = gcall.other
    /\ gcall.op = "or" =>
          /\ UnitedWith(gcall.pre.nodes, gcall.pre.edges, gcall.result)
          /\ Pre = gcall.pre
          /\ gcall.otherAfter = gcall.other

\* the same when no edge of either operand ends at a deleted node: there the
\* claim holds
C22_HoldsWithoutDanglingEdges ==
    (/\ gcall.op \in {"ior", "or"}
     /\ Dangling(gcall.pre.nodes, gcall.pre.edges) = {}
     /\ Dangling(gcall.other.nodes, gcall.other.edges) = {}) => C22_Union

---------------------------------------------------------------------------
(* Properties of the queries of the rule theory, checked under SpecTheory *)

\* C23: after any calls of update, insert, delete, define, empty and
\* initialize_tables, defined_tablenames() is exactly the set of tables with
\* at least one stored rule, and every stored rule is held under the table of
\* its own head
C23_DefinedTablenames ==
    /\ defined_tablenames(rules) = { t \in Tables : get_rules(rules, t) # {} }
    /\ \A t \in keys(rules) : \A r \in get_rules(rules, t) : r.table = t

\* the last rule of table p has been deleted while q keeps a fact: p is no
\* longer listed
C23_Witness ==
    /\ call.op = "delete"
    /\ "p" \in DOMAIN call.pre /\ "q" \in DOMAIN call.pre
    /\ defined_tablenames(rules) = {"q"}

\* C24: policy() returns exactly the stored rules whose body is non-empty; a
\* fact, a bare atom stored as a rule with an empty body included, is never
\* returned
C24_Policy ==
    /\ policy(rules) =
          UNION { { r \in get_rules(rules, t) : r.body # << >> } :
                    t \in keys(rules) }
    /\ \A r \in content(rules) : is_atom(r) \/ r.body = << >> => r \notin policy(rules)
    /\ (call.op = "insert" /\ ~call.raised) =>
          \A i \in 1..Len(call.events) :
              is_atom(call.events[i].formula) =>
                  /\ StoredForm(call.events[i].formula) \in content(rules)
                  /\ StoredForm(call.events[i].formula) \notin policy(rules)

\* an insert of a bare atom into a theory that holds a rule with a body: the
\* rule is returned, the fact is stored and not returned
C24_Witness ==
    /\ call.op = "insert" /\ ~call.raised
    /\ \E i \in 1..Len(call.events) : is_atom(call.events[i].formula)
    /\ policy(rules) # {}
    /\ content(rules) \ policy(rules) # {}

---------------------------------------------------------------------------
(* Properties of OrderedSet, checked under SpecSet *)

\* sequence s without key k, the order of the others kept
Without(s, k) == SelectSeq(s, LAMBDA x : x # k)

\* the keys the set iterates over now / before the call in progress
IterNow == OrderedSet_iter(TheSet).keys

IterBefore == OrderedSet_iter(scall.pre).keys

\* C25: an OrderedSet iterates over exactly its members, each once, in
\* insertion order (add of a present key keeps its place, add of an absent
\* key, also one discarded before, appends it), reversed iteration yields the
\* reverse sequence, add and discard return true iff they changed membership,
\* and pop removes and returns the last member (the first when last is
\* false) or raises KeyError on an empty set, which it leaves unchanged
C25_OrderedSet ==
    /\ OrderedSet_iter(TheSet).ret = "ok"
    /\ OrderedSet_reversed(TheSet).ret = "ok"
    /\ { IterNow[i] : i \in 1..Len(IterNow) } = DOMAIN set_map
    /\ Len(IterNow) = OrderedSet_len(TheSet)
    /\ OrderedSet_reversed(TheSet).keys = Reverse(IterNow)
    /\ scall.op = "add" =>
          /\ scall.ret = ~OrderedSet_contains(scall.pre, scall.key)
          /\ IterNow = IF scall.ret THEN Append(IterBefore, scall.key)
                       ELSE IterBefore
    /\ scall.op = "discard" =>
          /\ scall.ret = OrderedSet_contains(scall.pre, scall.key)
          /\ IterNow = Without(IterBefore, scall.key)
    /\ scall.op = "pop" =>
          IF IterBefore = << >>
          THEN scall.raised /\ TheSet = scall.pre
          ELSE /\ ~scall.raised
               /\ scall.popped = IF scall.last THEN IterBefore[Len(IterBefore)]
                                 ELSE IterBefore[1]
               /\ IterNow = Without(IterBefore, scall.popped)

\* add has appended key 1 to a set that held 2 and 3: the iteration order is
\* the insertion order, not the order of the keys
C25_Witness ==
    /\ scall.op = "add" /\ scall.ret
    /\ IterNow = <<2, 3, 1>>

\* pop(last=False) has removed the first of three members
C25_WitnessPopFirst ==
    /\ scall.op = "pop" /\ ~scall.last /\ ~scall.raised
    /\ Len(IterBefore) = MaxKeys
    /\ scall.popped = IterBefore[1]

---------------------------------------------------------------------------
(* Properties of the traversal timestamps, checked under SpecTraversal *)

\* the half-open intervals [begin, end) of x and y do not overlap
Disjoint(info, x, y) ==
    \/ info[x].end <= info[y].begin
    \/ info[y].end <= info[x].begin

\* the interval of x lies inside the interval of y
Inside(info, x, y) ==
    /\ info[y].begin <= info[x].begin
    /\ info[x].end <= info[y].end

\* C26: after a depth_first_search() that returns on a graph with n nodes,
\* every node has a begin and an end timestamp with begin < end, the 2n
\* timestamps are pairwise distinct and are exactly 0..2n-1, and the intervals
\* [begin, end) of any two nodes are disjoint or one lies inside the other
C26_Timestamps ==
    (gcall.op = "has_cycle" /\ gcall.ret \in {"True", "False"}) =>
        LET info == gcall.info
            n == Cardinality(nodes)
        IN  /\ DOMAIN info = nodes
            /\ \A x \in nodes :
                  /\ info[x].begin # NoneTime
                  /\ info[x].end # NoneTime
                  /\ info[x].begin < info[x].end
            /\ { info[x].begin : x \in nodes } \cup { info[x].end : x \in nodes }
                  = 0..(2 * n - 1)
            /\ \A x, y \in nodes :
                  x # y => info[x].begin # info[y].begin /\ info[x].end # info[y].end
            /\ \A x, y \in nodes :
                  x # y => \/ Disjoint(info, x, y)
                           \/ Inside(info, x, y)
                           \/ Inside(info, y, x)

\* a traversal of three nodes has returned: one interval lies inside another
\* and a third is disjoint from both
C26_Witness ==
    /\ gcall.op = "has_cycle" /\ gcall.ret \in {"True", "False"}
    /\ Cardinality(nodes) = 3
    /\ \E x, y, z \in nodes :
          /\ x # y /\ Inside(gcall.info, x, y)
          /\ Disjoint(gcall.info, z, x) /\ Disjoint(gcall.info, z, y)

\* C27: depth_first_search(), has_cycle() and dependencies(n) terminate on
\* every finite graph for every iteration order of nodes and edges: the
\* backpath walk of construct_cycle always comes back to the node it started
\* from
C27_TraversalTerminates ==
    gcall.op \in {"has_cycle", "dependencies", "depth_first_search_node"}
        => gcall.ret # "diverges"

---------------------------------------------------------------------------
(* Properties of the reference counts of a BagGraph, checked under SpecBag *)

\* C28: in a BagGraph changed by add_node, delete_node, add_edge and
\* delete_edge, every entry of the node and edge reference-count maps is an
\* integer >= 1, and node_count / edge_count return 0 exactly for the items
\* that have no entry
C28_CountsPositive ==
    /\ \A v \in DOMAIN node_refcounts :
          node_refcounts[v] \in Nat /\ node_refcounts[v] >= 1
    /\ \A e \in DOMAIN edge_refcounts :
          edge_refcounts[e] \in Nat /\ edge_refcounts[e] >= 1
    /\ \A v \in Nodes :
          node_count(node_refcounts, v) = 0 <=> v \notin DOMAIN node_refcounts
    /\ \A e \in AllTriples :
          edge_count(edge_refcounts, e[1], e[2], e[3]) = 0
              <=> e \notin DOMAIN edge_refcounts

\* the only reference to a self-loop has been deleted: the two counts of its
\* node and the count of the edge went to zero and their entries are gone,
\* while another node keeps its entry
C28_Witness ==
    /\ gcall.op = "delete_edge"
    /\ gcall.val1 = gcall.val2
    /\ count(gcall.pre.edge_refcounts, CallEdge) = 1
    /\ count(gcall.pre.node_refcounts, gcall.val1) = 2
    /\ gcall.val1 \notin DOMAIN node_refcounts
    /\ CallEdge \notin DOMAIN edge_refcounts
    /\ node_count(node_refcounts, gcall.val1) = 0
    /\ DOMAIN node_refcounts # {}

---------------------------------------------------------------------------
(* The mapping of Graph.stratification, checked under SpecTraversal *)

\* the largest number of edges with a label in labels on a walk of at most k
\* edges that starts at x
RECURSIVE MostStratifying(_, _, _, _)
MostStratifying(es, labels, x, k) ==
    LET out == { t \in AllEdges(es) : t[1] = x }
        via(t) == (IF t[3] \in labels THEN 1 ELSE 0)
                      + MostStratifying(es, labels, t[2], k - 1)
    IN  IF k = 0 \/ out = {} THEN 0
        ELSE CHOOSE m \in { via(t) : t \in out } :
                 \A t \in out : via(t) <= m

\* C29: a mapping returned by stratification(labels) is the pointwise least
\* valid one: stratum[n] is 1 plus the largest number of edges with a label in
\* labels on any path from n, whatever the order in which the edges were
\* iterated, and the call leaves nodes, edges, cycles and the other fields of
\* the last traversal as they were
C29_LeastStratification ==
    (gcall.op = "stratification" /\ gcall.ret = "mapping") =>
        /\ \A n \in nodes :
              gcall.stratum[n] =
                  1 + MostStratifying(edges, gcall.labels, n, Cardinality(nodes))
        /\ \A order \in IterationOrders(edges) :
              stratification(nodes, order, gcall.labels).ret = "mapping"
              /\ stratification(nodes, order, gcall.labels).stratum = gcall.stratum
        /\ UnchangedByCall
        /\ cycles = gcall.pre.cycles
        /\ nodes_info = gcall.pre.info
        /\ counter = gcall.pre.counter
        /\ backpath = gcall.pre.backpath

\* a node with a direct edge outside labels to a node of stratum 1 and a path
\* of two edges in labels to it: the longer count decides, the node is in
\* stratum 3; the cycles cached by an earlier has_cycle() are still there
C29_Witness ==
    /\ gcall.op = "stratification" /\ gcall.ret = "mapping"
    /\ ~NoCycles(gcall.pre.cycles)
    /\ \E t \in AllEdges(edges) :
          /\ t[3] \notin gcall.labels
          /\ gcall.stratum[t[1]] = 3
          /\ gcall.stratum[t[2]] = 1

====
